---- MODULE Spec2Model ----
(***************************************************************************)
(* hidclient (neo-hidclient): a Bluetooth HID keyboard+mouse emulation.    *)
(* The model covers the main loop of main() (the session state machine),   *)
(* the signal handler onsignal() and the event translator parse_events().  *)
(* The state after the start-up part of main() (signal handlers installed, *)
(* listening sockets bound, input sources open) is the initial state.      *)
(***************************************************************************)
EXTENDS Integers, Sequences, FiniteSets, TLC

(* ---------------------------------------------------------------------- *)
(* Bounds of the model                                                     *)
(* ---------------------------------------------------------------------- *)

\* How many regular (mapped) keys the input alphabet holds: the first
\* NumKeys entries of KeyPool.
NumKeys == 2

\* How many input descriptors are open (1..MAXEVDEVS in the program): one
\* select() reports between 1 and NumDevs of them ready.
NumDevs == 1

\* How many descriptors are ready in the one call of parse_events that the
\* translation runs follow (at most MAXEVDEVS in the program).
MaxEvents == 3

\* How many of the device nodes /dev/input/event0 .. can exist (MAXEVDEVS
\* are tried in the program).
MaxNodes == 2

\* The highest descriptor that open() can return at start-up; descriptor 0
\* is the standard input of the process and is open.
MaxFd == 3

\* How many of the 11 modifier-like keys are held when the event of the
\* runs on the modifier tracking is read.
MaxHeld == 2

(* ---------------------------------------------------------------------- *)
(* Integer helpers: C's bitwise operators on non-negative ints             *)
(* ---------------------------------------------------------------------- *)

RECURSIVE BitAnd(_, _)
BitAnd(a, b) ==
    IF a = 0 \/ b = 0 THEN 0
    ELSE (a % 2) * (b % 2) + 2 * BitAnd(a \div 2, b \div 2)

BitOr(a, b) == a + b - BitAnd(a, b)

RECURSIVE Pow2(_)
Pow2(n) == IF n = 0 THEN 1 ELSE 2 * Pow2(n - 1)

\* a value stored into an unsigned char / read back as a byte of the wire
Byte(v) == v % 256

(* ---------------------------------------------------------------------- *)
(* Data: the remap table and the key-code switch                           *)
(* ---------------------------------------------------------------------- *)

\* unsigned char chars[100][6][2]: row = dense key index, column = layer,
\* pair = (modifier byte, key usage).  Rows are listed for index 0..99.
chars ==
  <<
    <<<<0,0>>, <<0,0>>, <<0,0>>, <<0,0>>, <<0,0>>, <<0,0>>>>,  \* 0
    <<<<0,0>>, <<0,0>>, <<0,0>>, <<0,0>>, <<0,0>>, <<0,0>>>>,  \* 1
    <<<<0,0>>, <<0,0>>, <<0,0>>, <<0,0>>, <<0,0>>, <<0,0>>>>,  \* 2
    <<<<0,0>>, <<0,0>>, <<0,0>>, <<0,0>>, <<0,0>>, <<0,0>>>>,  \* 3
    <<<<0,24>>, <<2,24>>, <<6,36>>, <<0,74>>, <<0,0>>, <<0,0>>>>,  \* 4
    <<<<0,28>>, <<2,28>>, <<0,0>>, <<0,0>>, <<0,0>>, <<0,0>>>>,  \* 5
    <<<<0,52>>, <<2,52>>, <<4,36>>, <<0,73>>, <<0,0>>, <<0,0>>>>,  \* 6
    <<<<0,4>>, <<2,4>>, <<4,37>>, <<0,81>>, <<0,0>>, <<0,0>>>>,  \* 7
    <<<<0,15>>, <<2,15>>, <<4,34>>, <<0,82>>, <<0,0>>, <<0,0>>>>,  \* 8
    <<<<0,8>>, <<2,8>>, <<4,38>>, <<0,79>>, <<0,0>>, <<0,0>>>>,  \* 9
    <<<<0,18>>, <<2,18>>, <<2,48>>, <<0,77>>, <<0,0>>, <<0,0>>>>,  \* 10
    <<<<0,22>>, <<2,22>>, <<2,45>>, <<4,45>>, <<0,0>>, <<0,0>>>>,  \* 11
    <<<<0,10>>, <<2,10>>, <<2,53>>, <<0,37>>, <<0,0>>, <<0,0>>>>,  \* 12
    <<<<0,17>>, <<2,17>>, <<2,37>>, <<0,33>>, <<0,0>>, <<0,0>>>>,  \* 13
    <<<<0,21>>, <<2,21>>, <<2,38>>, <<0,34>>, <<0,0>>, <<0,0>>>>,  \* 14
    <<<<0,23>>, <<2,23>>, <<0,56>>, <<0,35>>, <<0,0>>, <<0,0>>>>,  \* 15
    <<<<0,16>>, <<2,16>>, <<2,34>>, <<0,30>>, <<0,0>>, <<0,0>>>>,  \* 16
    <<<<0,5>>, <<2,5>>, <<0,48>>, <<2,55>>, <<0,0>>, <<0,0>>>>,  \* 17
    <<<<0,9>>, <<2,9>>, <<2,39>>, <<0,38>>, <<0,0>>, <<0,0>>>>,  \* 18
    <<<<0,20>>, <<2,20>>, <<2,35>>, <<0,48>>, <<0,0>>, <<0,0>>>>,  \* 19
    <<<<0,27>>, <<2,27>>, <<4,55>>, <<0,75>>, <<0,0>>, <<0,0>>>>,  \* 20
    <<<<0,6>>, <<2,6>>, <<4,35>>, <<0,76>>, <<0,0>>, <<0,0>>>>,  \* 21
    <<<<0,12>>, <<2,12>>, <<2,36>>, <<0,80>>, <<0,0>>, <<0,0>>>>,  \* 22
    <<<<0,26>>, <<2,26>>, <<0,0>>, <<0,78>>, <<0,0>>, <<0,0>>>>,  \* 23
    <<<<0,11>>, <<2,11>>, <<0,53>>, <<0,36>>, <<0,0>>, <<0,0>>>>,  \* 24
    <<<<0,19>>, <<2,19>>, <<4,17>>, <<0,40>>, <<0,0>>, <<0,0>>>>,  \* 25
    <<<<0,25>>, <<2,25>>, <<2,56>>, <<0,42>>, <<0,0>>, <<0,0>>>>,  \* 26
    <<<<0,51>>, <<2,51>>, <<2,33>>, <<0,43>>, <<0,0>>, <<0,0>>>>,  \* 27
    <<<<0,14>>, <<2,14>>, <<2,30>>, <<4,30>>, <<0,0>>, <<0,0>>>>,  \* 28
    <<<<0,47>>, <<2,47>>, <<0,49>>, <<0,0>>, <<0,0>>, <<0,0>>>>,  \* 29
    <<<<0,30>>, <<6,47>>, <<0,0>>, <<0,0>>, <<0,0>>, <<0,0>>>>,  \* 30
    <<<<0,31>>, <<2,32>>, <<0,0>>, <<0,0>>, <<0,0>>, <<0,0>>>>,  \* 31
    <<<<0,32>>, <<4,7>>, <<0,0>>, <<0,0>>, <<0,0>>, <<0,0>>>>,  \* 32
    <<<<0,33>>, <<6,20>>, <<6,17>>, <<0,0>>, <<0,0>>, <<0,0>>>>,  \* 33
    <<<<0,34>>, <<4,20>>, <<6,5>>, <<6,38>>, <<0,0>>, <<0,0>>>>,  \* 34
    <<<<0,35>>, <<2,33>>, <<4,33>>, <<6,33>>, <<0,0>>, <<0,0>>>>,  \* 35
    <<<<0,36>>, <<4,8>>, <<4,29>>, <<0,0>>, <<0,0>>, <<0,0>>>>,  \* 36
    <<<<0,37>>, <<6,26>>, <<4,22>>, <<0,43>>, <<0,0>>, <<0,0>>>>,  \* 37
    <<<<0,38>>, <<4,31>>, <<4,49>>, <<2,36>>, <<0,0>>, <<0,0>>>>,  \* 38
    <<<<0,39>>, <<6,31>>, <<0,0>>, <<2,48>>, <<0,0>>, <<0,0>>>>,  \* 39
    <<<<0,40>>, <<2,40>>, <<0,40>>, <<4,40>>, <<0,40>>, <<0,40>>>>,  \* 40
    <<<<0,41>>, <<0,41>>, <<0,41>>, <<0,41>>, <<0,41>>, <<0,41>>>>,  \* 41
    <<<<0,42>>, <<0,42>>, <<0,42>>, <<0,42>>, <<0,42>>, <<0,42>>>>,  \* 42
    <<<<0,43>>, <<0,0>>, <<0,0>>, <<0,0>>, <<0,0>>, <<0,0>>>>,  \* 43
    <<<<0,44>>, <<2,44>>, <<0,44>>, <<4,39>>, <<0,0>>, <<0,0>>>>,  \* 44
    <<<<0,56>>, <<6,56>>, <<0,0>>, <<0,56>>, <<0,0>>, <<0,0>>>>,  \* 45
    <<<<2,46>>, <<2,0>>, <<0,0>>, <<0,0>>, <<0,0>>, <<0,0>>>>,  \* 46
    <<<<0,45>>, <<0,0>>, <<0,0>>, <<4,56>>, <<0,0>>, <<0,0>>>>,  \* 47
    <<<<0,46>>, <<0,0>>, <<0,0>>, <<0,0>>, <<0,0>>, <<0,0>>>>,  \* 48
    <<<<0,0>>, <<0,0>>, <<0,0>>, <<0,0>>, <<0,0>>, <<0,0>>>>,  \* 49
    <<<<0,0>>, <<0,0>>, <<0,0>>, <<0,0>>, <<0,0>>, <<0,0>>>>,  \* 50
    <<<<0,7>>, <<2,7>>, <<2,55>>, <<0,54>>, <<0,0>>, <<0,0>>>>,  \* 51
    <<<<0,29>>, <<2,29>>, <<4,15>>, <<0,55>>, <<0,0>>, <<0,0>>>>,  \* 52
    <<<<6,35>>, <<0,0>>, <<0,0>>, <<0,0>>, <<0,0>>, <<0,0>>>>,  \* 53
    <<<<0,54>>, <<4,56>>, <<2,31>>, <<0,31>>, <<0,0>>, <<0,0>>>>,  \* 54
    <<<<0,55>>, <<4,47>>, <<2,49>>, <<0,32>>, <<0,0>>, <<0,0>>>>,  \* 55
    <<<<0,13>>, <<2,13>>, <<2,54>>, <<2,54>>, <<0,0>>, <<0,0>>>>,  \* 56
    <<<<0,0>>, <<0,0>>, <<0,0>>, <<0,0>>, <<0,0>>, <<0,0>>>>,  \* 57
    <<<<0,58>>, <<0,58>>, <<0,58>>, <<0,58>>, <<0,58>>, <<0,58>>>>,  \* 58
    <<<<0,59>>, <<0,59>>, <<0,59>>, <<0,59>>, <<0,59>>, <<0,59>>>>,  \* 59
    <<<<0,60>>, <<0,60>>, <<0,60>>, <<0,60>>, <<0,60>>, <<0,60>>>>,  \* 60
    <<<<0,61>>, <<0,61>>, <<0,61>>, <<0,61>>, <<0,61>>, <<0,61>>>>,  \* 61
    <<<<0,62>>, <<0,62>>, <<0,62>>, <<0,62>>, <<0,62>>, <<0,62>>>>,  \* 62
    <<<<0,63>>, <<0,63>>, <<0,63>>, <<0,63>>, <<0,63>>, <<0,63>>>>,  \* 63
    <<<<0,64>>, <<0,64>>, <<0,64>>, <<0,64>>, <<0,64>>, <<0,64>>>>,  \* 64
    <<<<0,65>>, <<0,65>>, <<0,65>>, <<0,65>>, <<0,65>>, <<0,65>>>>,  \* 65
    <<<<0,66>>, <<0,66>>, <<0,66>>, <<0,66>>, <<0,66>>, <<0,66>>>>,  \* 66
    <<<<0,67>>, <<0,67>>, <<0,67>>, <<0,67>>, <<0,67>>, <<0,67>>>>,  \* 67
    <<<<0,68>>, <<0,68>>, <<0,68>>, <<0,68>>, <<0,68>>, <<0,68>>>>,  \* 68
    <<<<0,69>>, <<0,69>>, <<0,69>>, <<0,69>>, <<0,69>>, <<0,69>>>>,  \* 69
    <<<<0,70>>, <<0,70>>, <<0,70>>, <<0,70>>, <<0,70>>, <<0,70>>>>,  \* 70
    <<<<0,71>>, <<0,71>>, <<0,71>>, <<0,71>>, <<0,71>>, <<0,71>>>>,  \* 71
    <<<<0,72>>, <<0,72>>, <<0,72>>, <<0,72>>, <<0,72>>, <<0,72>>>>,  \* 72
    <<<<0,73>>, <<0,73>>, <<0,73>>, <<0,73>>, <<0,73>>, <<0,73>>>>,  \* 73
    <<<<0,74>>, <<0,74>>, <<0,74>>, <<0,74>>, <<0,74>>, <<0,74>>>>,  \* 74
    <<<<0,75>>, <<0,75>>, <<0,75>>, <<0,75>>, <<0,75>>, <<0,75>>>>,  \* 75
    <<<<0,76>>, <<0,76>>, <<0,76>>, <<0,76>>, <<0,76>>, <<0,76>>>>,  \* 76
    <<<<0,77>>, <<0,77>>, <<0,77>>, <<0,77>>, <<0,77>>, <<0,77>>>>,  \* 77
    <<<<0,78>>, <<0,78>>, <<0,78>>, <<0,78>>, <<0,78>>, <<0,78>>>>,  \* 78
    <<<<0,79>>, <<0,79>>, <<0,79>>, <<0,79>>, <<0,79>>, <<0,79>>>>,  \* 79
    <<<<0,80>>, <<0,80>>, <<0,80>>, <<0,80>>, <<0,80>>, <<0,80>>>>,  \* 80
    <<<<0,81>>, <<0,81>>, <<0,81>>, <<0,81>>, <<0,81>>, <<0,81>>>>,  \* 81
    <<<<0,82>>, <<0,82>>, <<0,82>>, <<0,82>>, <<0,82>>, <<0,82>>>>,  \* 82
    <<<<0,43>>, <<0,0>>, <<0,0>>, <<0,0>>, <<0,0>>, <<0,0>>>>,  \* 83
    <<<<2,36>>, <<0,0>>, <<0,0>>, <<0,0>>, <<0,0>>, <<0,0>>>>,  \* 84
    <<<<2,48>>, <<0,0>>, <<0,0>>, <<0,0>>, <<0,0>>, <<0,0>>>>,  \* 85
    <<<<0,56>>, <<0,0>>, <<0,0>>, <<0,0>>, <<0,0>>, <<0,0>>>>,  \* 86
    <<<<0,48>>, <<0,0>>, <<0,0>>, <<0,0>>, <<0,0>>, <<0,0>>>>,  \* 87
    <<<<0,40>>, <<0,0>>, <<0,0>>, <<0,0>>, <<0,0>>, <<0,0>>>>,  \* 88
    <<<<0,30>>, <<0,0>>, <<0,0>>, <<0,0>>, <<0,0>>, <<0,0>>>>,  \* 89
    <<<<0,31>>, <<0,0>>, <<0,0>>, <<0,0>>, <<0,0>>, <<0,0>>>>,  \* 90
    <<<<0,32>>, <<0,0>>, <<0,0>>, <<0,0>>, <<0,0>>, <<0,0>>>>,  \* 91
    <<<<0,33>>, <<0,0>>, <<0,0>>, <<0,0>>, <<0,0>>, <<0,0>>>>,  \* 92
    <<<<0,34>>, <<0,0>>, <<0,0>>, <<0,0>>, <<0,0>>, <<0,0>>>>,  \* 93
    <<<<0,35>>, <<0,0>>, <<0,0>>, <<0,0>>, <<0,0>>, <<0,0>>>>,  \* 94
    <<<<0,36>>, <<0,0>>, <<0,0>>, <<0,0>>, <<0,0>>, <<0,0>>>>,  \* 95
    <<<<0,37>>, <<0,0>>, <<0,0>>, <<0,0>>, <<0,0>>, <<0,0>>>>,  \* 96
    <<<<0,38>>, <<0,0>>, <<0,0>>, <<0,0>>, <<0,0>>, <<0,0>>>>,  \* 97
    <<<<0,39>>, <<0,0>>, <<0,0>>, <<0,0>>, <<0,0>>, <<0,0>>>>,  \* 98
    <<<<0,54>>, <<0,0>>, <<0,0>>, <<0,0>>, <<0,0>>, <<0,0>>>>  \* 99
  >>

\* the lookup with layer 0 whatever the layer
CharsBaseLayer(u, layer, k) == chars[u + 1][1][k + 1]

\* chars[u][layer][k] with C's 0-based indices
Chars(u, layer, k) == chars[u + 1][layer + 1][k + 1]

\* The "regular key" part of the switch: the case labels in source order;
\* every line does ++u and falls through to the next one, the last line
\* (KEY_A) does u += 3.  "" stands for a ++u line that carries no label.
RegularCases ==
  <<
    "KEY_KPDOT", "KEY_KP0", "KEY_KP9", "KEY_KP8",
    "KEY_KP7", "KEY_KP6", "KEY_KP5", "KEY_KP4",
    "KEY_KP3", "KEY_KP2", "KEY_KP1", "KEY_KPENTER",
    "KEY_KPPLUS", "KEY_KPMINUS", "KEY_KPASTERISK", "KEY_KPSLASH",
    "KEY_NUMLOCK", "KEY_UP", "KEY_DOWN", "KEY_LEFT",
    "KEY_RIGHT", "KEY_PAGEDOWN", "KEY_END", "KEY_DELETE",
    "KEY_PAGEUP", "KEY_HOME", "KEY_INSERT", "KEY_PAUSE",
    "KEY_SCROLLLOCK", "", "KEY_F12", "KEY_F11",
    "KEY_F10", "KEY_F9", "KEY_F8", "KEY_F7",
    "KEY_F6", "KEY_F5", "KEY_F4", "KEY_F3",
    "KEY_F2", "KEY_F1", "", "KEY_SLASH",
    "KEY_DOT", "KEY_COMMA", "KEY_GRAVE", "KEY_APOSTROPHE",
    "KEY_SEMICOLON", "", "", "KEY_RIGHTBRACE",
    "KEY_LEFTBRACE", "KEY_EQUAL", "KEY_MINUS", "KEY_SPACE",
    "KEY_TAB", "KEY_BACKSPACE", "KEY_ESC", "KEY_ENTER",
    "KEY_0", "KEY_9", "KEY_8", "KEY_7",
    "KEY_6", "KEY_5", "KEY_4", "KEY_3",
    "KEY_2", "KEY_1", "KEY_Z", "KEY_Y",
    "KEY_X", "KEY_W", "KEY_V", "KEY_U",
    "KEY_T", "KEY_S", "KEY_R", "KEY_Q",
    "KEY_P", "KEY_O", "KEY_N", "KEY_M",
    "KEY_L", "KEY_K", "KEY_J", "KEY_I",
    "KEY_H", "KEY_G", "KEY_F", "KEY_E",
    "KEY_D", "KEY_C", "KEY_B", "KEY_A"
  >>

RegularCodes == { RegularCases[i] : i \in 1..Len(RegularCases) } \ {""}

\* the same with u += 4 on the last line: every index is one too high
FallThroughPlusFour(code) ==
    LET i == CHOOSE k \in 1..Len(RegularCases) : RegularCases[k] = code
    IN  1 + (Len(RegularCases) - i) + 4

\* u as the switch leaves it (u = 1 on entry) for a regular key code
FallThrough(code) ==
    LET i == CHOOSE k \in 1..Len(RegularCases) : RegularCases[k] = code
    IN  1 + (Len(RegularCases) - i) + 3

\* pressedmod as the switch sets it for the modifier-like keys
ModifierCases ==
    [ KEY_RIGHTMETA  |-> 32896, KEY_RIGHTCTRL |-> 32784,
      KEY_LEFTMETA   |-> 32776, KEY_LEFTALT   |-> 32772,
      KEY_LEFTCTRL   |-> 32769, KEY_LEFTSHIFT |-> 2,
      KEY_RIGHTALT   |-> 64,    KEY_RIGHTSHIFT |-> 32,
      KEY_CAPSLOCK   |-> 256,   KEY_BACKSLASH |-> 512,
      KEY_102ND      |-> 1024 ]

ModifierCodes == DOMAIN ModifierCases

\* numeric codes of the mouse buttons (the switch uses code & 0x03)
ButtonCases == [ BTN_LEFT |-> 272, BTN_RIGHT |-> 273, BTN_MIDDLE |-> 274 ]

ButtonCodes == DOMAIN ButtonCases

\* numeric codes of the relative axes that the EV_REL switch accepts
\* (ABS_X = REL_X = 0, ABS_Y = REL_Y = 1, ABS_Z = REL_Z = 2, REL_WHEEL = 8)
RelCases == [ REL_X |-> 0, REL_Y |-> 1, REL_Z |-> 2, REL_WHEEL |-> 8 ]

RelCodes == DOMAIN RelCases

\* extern unsigned char pass[ARRAY][2]: the (modifier, usage) pairs sent by
\* RCtrl+PRINT.  pass.h / the table itself are not part of the sources; the
\* table below types "U" (shift + usage 0x18) and releases it again.
pass == << <<2, 24>>, <<0, 0>> >>

ARRAY == Len(pass)

\* sizeof(struct input_event): what a complete read() returns
EventSize == 24

\* number of input descriptors the program can hold
MAXEVDEVS == 16

\* descriptor of the standard input
Stdin == 0

(* ---------------------------------------------------------------------- *)
(* parse_events: the translation of one input record                       *)
(* ---------------------------------------------------------------------- *)

\* char pressedkey[8] = { 0, ... }
NoKeys == <<0, 0, 0, 0, 0, 0, 0, 0>>

\* struct hidrep_mouse_t as the bytes on the wire
MouseReport(button, x, y, z) == <<161, 1, BitAnd(button, 7), Byte(x), Byte(y), Byte(z)>>

\* struct hidrep_keyb_t as the bytes on the wire
KeybReport(mod, keys) == <<161, 2, Byte(mod)>> \o keys

\* The result of the n-th send() of one parse_events pass.  fail.at names
\* the send that fails (0: none does) and fail.val what it returns then
\* (-1: error, 0: nothing written); a send that works returns the size.
SendResult(sent, report, fail) ==
    IF fail.at = Len(sent) + 1 THEN fail.val ELSE Len(report)

\* the reports handed to send() so far, each with what send() returned
\* and the call that sent it: "button" (the mouse-button case), "final"
\* (LCtrl+PRINT), "pass" (RCtrl+PRINT), "keyb" (the keyboard report),
\* "rel" (case EV_REL)
Send(sent, site, report, fail) ==
    Append(sent, [site |-> site, rep |-> report, res |-> SendResult(sent, report, fail)])

\* what one pass of the for-loop body leaves: the globals, the reports
\* handed to send(), and how the pass ends: "next" (go on with the next
\* descriptor), "fail" (return -1), "exit" (exit(0)), "undefined"
Outcome(st, sent, ret) ==
    [modifierkeys |-> st.modifierkeys, pressedkey |-> st.pressedkey,
     mousebuttons |-> st.mousebuttons, on |-> st.on, sent |-> sent, ret |-> ret]

\* "Key down" that stores into the last slot without looking for a free one
PressLoopLast(pk, printchar, j) ==
    [pressedkey |-> [pk EXCEPT ![8] = printchar], j |-> 9]

\* "Key down" that stores into the first slot, free or not
PressLoopFirst(pk, printchar, j) ==
    [pressedkey |-> [pk EXCEPT ![1] = printchar], j |-> 9]

\* "Key down": add to the list of currently pressed keys; j is C's index
RECURSIVE PressLoop(_, _, _)
PressLoop(pk, printchar, j) ==
    IF j >= 8 THEN [pressedkey |-> pk, j |-> j]
    ELSE IF pk[j + 1] = 0
         THEN [pressedkey |-> [pk EXCEPT ![j + 1] = printchar], j |-> 9]
    ELSE IF pk[j + 1] = printchar
         THEN [pressedkey |-> pk, j |-> 9]
    ELSE PressLoop(pk, printchar, j + 1)

\* the shift without 'pressedkey[7] = 0': the last slot keeps its usage
RECURSIVE ShiftLeftKeepLast(_, _)
ShiftLeftKeepLast(pk, j) ==
    IF j < 7 THEN ShiftLeftKeepLast([pk EXCEPT ![j + 1] = pk[j + 2]], j + 1)
    ELSE pk

\* while ( j < 7 ) { pressedkey[j] = pressedkey[j+1]; ++j; } pressedkey[7] = 0;
RECURSIVE ShiftLeft(_, _)
ShiftLeft(pk, j) ==
    IF j < 7 THEN ShiftLeft([pk EXCEPT ![j + 1] = pk[j + 2]], j + 1)
    ELSE [pk EXCEPT ![8] = 0]

\* "Key up" without the test pressedkey[j] == printchar
ReleaseLoopFirst(pk, printchar, j) ==
    [pressedkey |-> ShiftLeft(pk, j), j |-> 8]

\* "Key up": remove from the array
RECURSIVE ReleaseLoop(_, _, _)
ReleaseLoop(pk, printchar, j) ==
    IF j >= 8 THEN [pressedkey |-> pk, j |-> j]
    ELSE IF pk[j + 1] = printchar
         THEN [pressedkey |-> ShiftLeft(pk, j), j |-> 8]
    ELSE ReleaseLoop(pk, printchar, j + 1)

\* layermod with the left-hand selector of each group only
LayerModLeftOnly(mk) ==
      (IF BitAnd(mk, 2)    # 0 THEN 1 ELSE 0)
    + (IF BitAnd(mk, 256)  # 0 THEN 2 ELSE 0)
    + (IF BitAnd(mk, 1024) # 0 THEN 4 ELSE 0)

\* layermod: which groups of layer selectors are held
LayerMod(mk) ==
      (IF BitAnd(mk, 34)   # 0 THEN 1 ELSE 0)
    + (IF BitAnd(mk, 768)  # 0 THEN 2 ELSE 0)
    + (IF BitAnd(mk, 1088) # 0 THEN 4 ELSE 0)

\* layer without the test ( layermod & 0x06 ) == 0x06
LayerWithoutFive(layermod) ==
    IF BitAnd(layermod, 3) = 3 THEN 4
    ELSE IF BitAnd(layermod, 4) = 4 THEN 3
    ELSE IF BitAnd(layermod, 2) = 2 THEN 2
    ELSE IF BitAnd(layermod, 1) = 1 THEN 1
    ELSE 0

\* layer without the test ( layermod & 0x03 ) == 0x03
LayerWithoutFour(layermod) ==
    IF BitAnd(layermod, 6) = 6 THEN 5
    ELSE IF BitAnd(layermod, 4) = 4 THEN 3
    ELSE IF BitAnd(layermod, 2) = 2 THEN 2
    ELSE IF BitAnd(layermod, 1) = 1 THEN 1
    ELSE 0

\* layer: the five tests run in this order, a later one overwrites
Layer(layermod) ==
    IF BitAnd(layermod, 6) = 6 THEN 5
    ELSE IF BitAnd(layermod, 3) = 3 THEN 4
    ELSE IF BitAnd(layermod, 4) = 4 THEN 3
    ELSE IF BitAnd(layermod, 2) = 2 THEN 2
    ELSE IF BitAnd(layermod, 1) = 1 THEN 1
    ELSE 0

\* the keyboard tail with ( inevent->value == 1 ) for ( inevent->value >= 1 )
\* in the modifier tracking: a repeat clears the bit
KeyTailPressOnly(u, pressedmod, mod0, j0, value, st, sent, conn, fail) ==
    LET mk1   == BitAnd(st.modifierkeys, 65535 - pressedmod)
        mk    == IF value = 1 THEN BitOr(mk1, pressedmod) ELSE mk1
        mod1  == IF BitAnd(pressedmod, 32768) # 0 THEN Byte(mk) ELSE mod0
        layer == Layer(LayerMod(mk))
        printchar == Chars(u, layer, 1)
        mod   == IF printchar # 0 THEN Chars(u, layer, 0) ELSE mod1
        lp    == IF value = 1 THEN PressLoop(st.pressedkey, printchar, 0)
                 ELSE IF value = 0 THEN ReleaseLoop(st.pressedkey, printchar, 0)
                 ELSE [pressedkey |-> st.pressedkey, j |-> j0]
        st1   == [st EXCEPT !.modifierkeys = mk, !.pressedkey = lp.pressedkey]
        rep   == KeybReport(mod, lp.pressedkey)
        j     == IF st.on = 1 THEN SendResult(sent, rep, fail) ELSE lp.j
        sent1 == IF st.on = 1 THEN Send(sent, "keyb", rep, fail) ELSE sent
    IN  IF ~conn THEN Outcome(st1, sent, "next")
        ELSE IF 1 > j THEN Outcome(st1, sent1, "fail")
        ELSE Outcome(st1, sent1, "next")

\* the keyboard tail with ( inevent->value >= 1 ) for ( inevent->value == 1 )
\* in front of the press loop: a repeat is stored like a press
KeyTailRepeatPresses(u, pressedmod, mod0, j0, value, st, sent, conn, fail) ==
    LET mk1   == BitAnd(st.modifierkeys, 65535 - pressedmod)
        mk    == IF value >= 1 THEN BitOr(mk1, pressedmod) ELSE mk1
        mod1  == IF BitAnd(pressedmod, 32768) # 0 THEN Byte(mk) ELSE mod0
        layer == Layer(LayerMod(mk))
        printchar == Chars(u, layer, 1)
        mod   == IF printchar # 0 THEN Chars(u, layer, 0) ELSE mod1
        lp    == IF value >= 1 THEN PressLoop(st.pressedkey, printchar, 0)
                 ELSE ReleaseLoop(st.pressedkey, printchar, 0)
        st1   == [st EXCEPT !.modifierkeys = mk, !.pressedkey = lp.pressedkey]
        rep   == KeybReport(mod, lp.pressedkey)
        j     == IF st.on = 1 THEN SendResult(sent, rep, fail) ELSE lp.j
        sent1 == IF st.on = 1 THEN Send(sent, "keyb", rep, fail) ELSE sent
    IN  IF ~conn THEN Outcome(st1, sent, "next")
        ELSE IF 1 > j THEN Outcome(st1, sent1, "fail")
        ELSE Outcome(st1, sent1, "next")

\* the keyboard tail with the test of 'on' in front of the whole tail: muted,
\* it updates nothing
KeyTailMutedSkips(u, pressedmod, mod0, j0, value, st, sent, conn, fail) ==
    LET mk1   == BitAnd(st.modifierkeys, 65535 - pressedmod)
        mk    == IF value >= 1 THEN BitOr(mk1, pressedmod) ELSE mk1
        mod1  == IF BitAnd(pressedmod, 32768) # 0 THEN Byte(mk) ELSE mod0
        layer == Layer(LayerMod(mk))
        printchar == Chars(u, layer, 1)
        mod   == IF printchar # 0 THEN Chars(u, layer, 0) ELSE mod1
        lp    == IF value = 1 THEN PressLoop(st.pressedkey, printchar, 0)
                 ELSE IF value = 0 THEN ReleaseLoop(st.pressedkey, printchar, 0)
                 ELSE [pressedkey |-> st.pressedkey, j |-> j0]
        st1   == [st EXCEPT !.modifierkeys = mk, !.pressedkey = lp.pressedkey]
        rep   == KeybReport(mod, lp.pressedkey)
    IN  IF st.on # 1 THEN Outcome(st, sent, "next")
        ELSE IF ~conn THEN Outcome(st1, sent, "next")
        ELSE IF 1 > SendResult(sent, rep, fail)
        THEN Outcome(st1, Send(sent, "keyb", rep, fail), "fail")
        ELSE Outcome(st1, Send(sent, "keyb", rep, fail), "next")

\* the keyboard tail with j cleared in front of 'if (on)': muted, the test
\* of the send result finds 0
KeyTailResultCleared(u, pressedmod, mod0, j0, value, st, sent, conn, fail) ==
    LET mk1   == BitAnd(st.modifierkeys, 65535 - pressedmod)
        mk    == IF value >= 1 THEN BitOr(mk1, pressedmod) ELSE mk1
        mod1  == IF BitAnd(pressedmod, 32768) # 0 THEN Byte(mk) ELSE mod0
        layer == Layer(LayerMod(mk))
        printchar == Chars(u, layer, 1)
        mod   == IF printchar # 0 THEN Chars(u, layer, 0) ELSE mod1
        lp    == IF value = 1 THEN PressLoop(st.pressedkey, printchar, 0)
                 ELSE IF value = 0 THEN ReleaseLoop(st.pressedkey, printchar, 0)
                 ELSE [pressedkey |-> st.pressedkey, j |-> j0]
        st1   == [st EXCEPT !.modifierkeys = mk, !.pressedkey = lp.pressedkey]
        rep   == KeybReport(mod, lp.pressedkey)
        j     == IF st.on = 1 THEN SendResult(sent, rep, fail) ELSE 0
        sent1 == IF st.on = 1 THEN Send(sent, "keyb", rep, fail) ELSE sent
    IN  IF ~conn THEN Outcome(st1, sent, "next")
        ELSE IF 1 > j THEN Outcome(st1, sent1, "fail")
        ELSE Outcome(st1, sent1, "next")

\* The part of case EV_KEY behind the inner switch: modifier tracking,
\* layer, table lookup, pressedkey update and the keyboard report.  u,
\* pressedmod, mod and j are the locals as the inner switch left them.
KeyTail(u, pressedmod, mod0, j0, value, st, sent, conn, fail) ==
    LET mk1   == BitAnd(st.modifierkeys, 65535 - pressedmod)
        mk    == IF value >= 1 THEN BitOr(mk1, pressedmod) ELSE mk1
        mod1  == IF BitAnd(pressedmod, 32768) # 0 THEN Byte(mk) ELSE mod0
        layer == Layer(LayerMod(mk))
        printchar == Chars(u, layer, 1)
        mod   == IF printchar # 0 THEN Chars(u, layer, 0) ELSE mod1
        lp    == IF value = 1 THEN PressLoop(st.pressedkey, printchar, 0)
                 ELSE IF value = 0 THEN ReleaseLoop(st.pressedkey, printchar, 0)
                 ELSE [pressedkey |-> st.pressedkey, j |-> j0]
        st1   == [st EXCEPT !.modifierkeys = mk, !.pressedkey = lp.pressedkey]
        rep   == KeybReport(mod, lp.pressedkey)
        j     == IF st.on = 1 THEN SendResult(sent, rep, fail) ELSE lp.j
        sent1 == IF st.on = 1 THEN Send(sent, "keyb", rep, fail) ELSE sent
    IN  IF ~conn THEN Outcome(st1, sent, "next")
        ELSE IF 1 > j THEN Outcome(st1, sent1, "fail")
        ELSE Outcome(st1, sent1, "next")

\* the burst without the test of the send result: a failing send does not
\* stop it
RECURSIVE PassLoopNoAbort(_, _, _, _, _, _, _, _)
PassLoopNoAbort(i, pk, mod, j, sent, onv, conn, fail) ==
    IF i >= ARRAY THEN [pressedkey |-> pk, mod |-> mod, j |-> j, sent |-> sent, ret |-> "next"]
    ELSE LET mod1 == pass[i + 1][1]
             pk1  == [pk EXCEPT ![1] = pass[i + 1][2]]
             rep  == KeybReport(mod1, pk1)
             j1   == IF onv = 1 THEN SendResult(sent, rep, fail) ELSE j
             sent1 == IF onv = 1 THEN Send(sent, "pass", rep, fail) ELSE sent
         IN  IF ~conn
             THEN [pressedkey |-> pk1, mod |-> mod1, j |-> j, sent |-> sent, ret |-> "next"]
             ELSE PassLoopNoAbort(i + 1, pk1, mod1, j1, sent1, onv, conn, fail)

\* RCtrl+PRINT: for(i=0;i<ARRAY;i++) { ... } from pass entry i on
RECURSIVE PassLoop(_, _, _, _, _, _, _, _)
PassLoop(i, pk, mod, j, sent, onv, conn, fail) ==
    IF i >= ARRAY THEN [pressedkey |-> pk, mod |-> mod, j |-> j, sent |-> sent, ret |-> "next"]
    ELSE LET mod1 == pass[i + 1][1]
             pk1  == [pk EXCEPT ![1] = pass[i + 1][2]]
             rep  == KeybReport(mod1, pk1)
             j1   == IF onv = 1 THEN SendResult(sent, rep, fail) ELSE j
             sent1 == IF onv = 1 THEN Send(sent, "pass", rep, fail) ELSE sent
         IN  IF ~conn
             THEN [pressedkey |-> pk1, mod |-> mod1, j |-> j, sent |-> sent, ret |-> "next"]
             ELSE IF 1 > j1
             THEN [pressedkey |-> pk1, mod |-> mod1, j |-> j1, sent |-> sent1, ret |-> "fail"]
             ELSE PassLoop(i + 1, pk1, mod1, j1, sent1, onv, conn, fail)

\* case KEY_SYSRQ with 'on = !on' in front of the test of the value: a press
\* and a repeat flip the toggle
SysRqPressToggles(value, st, conn, allocated, fail) ==
    IF value # 0
    THEN KeyTail(1, 0, 0, EventSize, value, [st EXCEPT !.on = 1 - st.on], <<>>, conn, fail)
    ELSE IF BitAnd(st.modifierkeys, 1) = 1
    THEN Outcome(st,
                 IF conn THEN Send(<<>>, "final", KeybReport(0, NoKeys), fail) ELSE <<>>,
                 IF allocated THEN "exit" ELSE "undefined")
    ELSE IF BitAnd(st.modifierkeys, 16) = 16
    THEN LET b == PassLoop(0, st.pressedkey, 0, EventSize, <<>>, st.on, conn, fail)
         IN  IF b.ret = "fail"
             THEN Outcome([st EXCEPT !.pressedkey = b.pressedkey], b.sent, "fail")
             ELSE KeyTail(1, 0, b.mod, b.j, value,
                          [st EXCEPT !.pressedkey = [b.pressedkey EXCEPT ![1] = 0]],
                          b.sent, conn, fail)
    ELSE KeyTail(1, 0, 0, EventSize, value, [st EXCEPT !.on = 1 - st.on], <<>>, conn, fail)

\* case KEY_SYSRQ with return -99 in the place of exit(0)
SysRqReturn(value, st, conn, allocated, fail) ==
    IF value # 0 THEN KeyTail(1, 0, 0, EventSize, value, st, <<>>, conn, fail)
    ELSE IF BitAnd(st.modifierkeys, 1) = 1
    THEN Outcome(st,
                 IF conn THEN Send(<<>>, "final", KeybReport(0, NoKeys), fail) ELSE <<>>,
                 IF allocated THEN "fail" ELSE "undefined")
    ELSE IF BitAnd(st.modifierkeys, 16) = 16
    THEN LET b == PassLoop(0, st.pressedkey, 0, EventSize, <<>>, st.on, conn, fail)
         IN  IF b.ret = "fail"
             THEN Outcome([st EXCEPT !.pressedkey = b.pressedkey], b.sent, "fail")
             ELSE KeyTail(1, 0, b.mod, b.j, value,
                          [st EXCEPT !.pressedkey = [b.pressedkey EXCEPT ![1] = 0]],
                          b.sent, conn, fail)
    ELSE KeyTail(1, 0, 0, EventSize, value, [st EXCEPT !.on = 1 - st.on], <<>>, conn, fail)

\* case KEY_SYSRQ.  allocated: whether -x has allocated the buffer 'result';
\* if it has not, sprintf(result, ...) writes through a null pointer and
\* what the pass does from there on is undefined.
SysRq(value, st, conn, allocated, fail) ==
    IF value # 0 THEN KeyTail(1, 0, 0, EventSize, value, st, <<>>, conn, fail)
    ELSE IF BitAnd(st.modifierkeys, 1) = 1
    THEN Outcome(st,
                 IF conn THEN Send(<<>>, "final", KeybReport(0, NoKeys), fail) ELSE <<>>,
                 IF allocated THEN "exit" ELSE "undefined")
    ELSE IF BitAnd(st.modifierkeys, 16) = 16
    THEN LET b == PassLoop(0, st.pressedkey, 0, EventSize, <<>>, st.on, conn, fail)
         IN  IF b.ret = "fail"
             THEN Outcome([st EXCEPT !.pressedkey = b.pressedkey], b.sent, "fail")
             ELSE KeyTail(1, 0, b.mod, b.j, value,
                          [st EXCEPT !.pressedkey = [b.pressedkey EXCEPT ![1] = 0]],
                          b.sent, conn, fail)
    ELSE KeyTail(1, 0, 0, EventSize, value, [st EXCEPT !.on = 1 - st.on], <<>>, conn, fail)

\* the mouse-button case without 'mousebuttons & (0x07-c)': a button's bit
\* is set by the press and never cleared
ButtonNeverCleared(code, value, st, conn, fail) ==
    LET c   == Pow2(BitAnd(ButtonCases[code], 3))
        mb  == BitOr(st.mousebuttons, IF value = 1 THEN c ELSE 0)
        st1 == [st EXCEPT !.mousebuttons = mb]
        rep == MouseReport(mb, 0, 0, 0)
    IN  IF ~conn THEN KeyTail(1, 0, 0, EventSize, value, st1, <<>>, conn, fail)
        ELSE IF 1 > SendResult(<<>>, rep, fail)
        THEN Outcome(st1, Send(<<>>, "button", rep, fail), "fail")
        ELSE KeyTail(1, 0, 0, SendResult(<<>>, rep, fail), value, st1,
                     Send(<<>>, "button", rep, fail), conn, fail)

\* case BTN_LEFT / BTN_RIGHT / BTN_MIDDLE; its break leaves the inner switch
\* only, so the keyboard part runs behind it with u = 1
Button(code, value, st, conn, fail) ==
    LET c   == Pow2(BitAnd(ButtonCases[code], 3))
        mb  == BitOr(BitAnd(st.mousebuttons, 7 - c), IF value = 1 THEN c ELSE 0)
        st1 == [st EXCEPT !.mousebuttons = mb]
        rep == MouseReport(mb, 0, 0, 0)
    IN  IF ~conn THEN KeyTail(1, 0, 0, EventSize, value, st1, <<>>, conn, fail)
        ELSE IF 1 > SendResult(<<>>, rep, fail)
        THEN Outcome(st1, Send(<<>>, "button", rep, fail), "fail")
        ELSE KeyTail(1, 0, 0, SendResult(<<>>, rep, fail), value, st1,
                     Send(<<>>, "button", rep, fail), conn, fail)

\* case EV_KEY
KeyEvent(code, value, st, conn, allocated, fail) ==
    IF code \in ButtonCodes THEN Button(code, value, st, conn, fail)
    ELSE IF code = "KEY_SYSRQ" THEN SysRq(value, st, conn, allocated, fail)
    ELSE IF code \in ModifierCodes
    THEN KeyTail(1, ModifierCases[code], 0, EventSize, value, st, <<>>, conn, fail)
    ELSE IF code \in RegularCodes
    THEN KeyTail(FallThrough(code), 0, 0, EventSize, value, st, <<>>, conn, fail)
    ELSE KeyTail(1, 0, 0, EventSize, value, st, <<>>, conn, fail)

\* case EV_REL without the test of connectionok in front of the send
RelEventUnguarded(code, value, st, conn, fail) ==
    IF code \notin RelCodes THEN Outcome(st, <<>>, "next")
    ELSE LET rep == MouseReport(st.mousebuttons,
                                IF RelCases[code] = 0 THEN value ELSE 0,
                                IF RelCases[code] = 1 THEN value ELSE 0,
                                IF RelCases[code] >= 2 THEN value ELSE 0)
         IN  IF 1 > SendResult(<<>>, rep, fail)
             THEN Outcome(st, Send(<<>>, "rel", rep, fail), "fail")
             ELSE Outcome(st, Send(<<>>, "rel", rep, fail), "next")

\* case EV_REL
RelEvent(code, value, st, conn, fail) ==
    IF code \notin RelCodes THEN Outcome(st, <<>>, "next")
    ELSE LET n   == RelCases[code]
             rep == MouseReport(st.mousebuttons,
                                IF n = 0 THEN value ELSE 0,
                                IF n = 1 THEN value ELSE 0,
                                IF n >= 2 THEN value ELSE 0)
         IN  IF ~conn THEN Outcome(st, <<>>, "next")
             ELSE IF 1 > SendResult(<<>>, rep, fail)
             THEN Outcome(st, Send(<<>>, "rel", rep, fail), "fail")
             ELSE Outcome(st, Send(<<>>, "rel", rep, fail), "next")

\* the for-loop body with 'return -1' in the place of 'continue' behind a
\* read() that returned -1
ParseOneErrFatal(rd, st, conn, allocated, fail) ==
    IF rd.kind = "err" THEN Outcome(st, <<>>, "fail")
    ELSE IF rd.kind # "event" THEN Outcome(st, <<>>, "next")
    ELSE IF rd.type = "EV_KEY"
    THEN KeyEvent(rd.code, rd.value, st, conn, allocated, fail)
    ELSE IF rd.type = "EV_REL"
    THEN RelEvent(rd.code, rd.value, st, conn, fail)
    ELSE Outcome(st, <<>>, "next")

\* One pass of the for-loop body of parse_events for a ready descriptor.
\* rd is what read() delivered: "err" (-1), "eof" (0), "short" (fewer
\* bytes than one record) or "event" with the record.
ParseOne(rd, st, conn, allocated, fail) ==
    IF rd.kind # "event" THEN Outcome(st, <<>>, "next")
    ELSE IF rd.type = "EV_KEY"
    THEN KeyEvent(rd.code, rd.value, st, conn, allocated, fail)
    ELSE IF rd.type = "EV_REL"
    THEN RelEvent(rd.code, rd.value, st, conn, fail)
    ELSE Outcome(st, <<>>, "next")

(* ---------------------------------------------------------------------- *)
(* The input alphabet of the model                                         *)
(* ---------------------------------------------------------------------- *)

\* regular keys the input sources can deliver, in the order NumKeys takes them
KeyPool == <<"KEY_A", "KEY_B", "KEY_C", "KEY_D", "KEY_E", "KEY_F">>

RegularKeys == { KeyPool[i] : i \in 1..NumKeys }

\* EV_KEY codes of the alphabet: regular keys, the two modifiers that the
\* PRINT key looks at, the PRINT key, a mouse button and a code the switch
\* does not know
KeyCodes ==
    RegularKeys \cup
    {"KEY_LEFTCTRL", "KEY_RIGHTCTRL", "KEY_SYSRQ", "BTN_LEFT", "KEY_MUTE"}

Rd(kind, type, code, value) == [kind |-> kind, type |-> type, code |-> code, value |-> value]

\* what one read() of a ready descriptor can deliver
Reads ==
    { Rd(k, "", "", 0) : k \in {"err", "eof", "short"} }
    \cup { Rd("event", "EV_KEY", c, v) : c \in KeyCodes, v \in {0, 1, 2} }
    \cup { Rd("event", "EV_REL", c, 1) : c \in {"REL_X", "REL_HWHEEL"} }
    \cup { Rd("event", t, "", 0) : t \in {"EV_SYN", "EV_MSC"} }

\* no record has been read
NoEvent == Rd("none", "", "", 0)

\* no send() fails
NoFail == [at |-> 0, val |-> -1]

\* which send() of a pass that sends n reports fails, and how
Fails(n) == {NoFail} \cup { [at |-> k, val |-> v] : k \in 1..n, v \in {-1, 0} }

\* what the build can make of the write through the null 'result': the
\* process dies of the fault, or it gets as far as exit(0)
UbOutcomes == {"crashed", "exited"}

(* ---------------------------------------------------------------------- *)
(* State                                                                   *)
(* ---------------------------------------------------------------------- *)

VARIABLES
    pc,              \* where main() stands
    prepareshutdown, \* char prepareshutdown
    connectionok,    \* char connectionok
    modifierkeys,    \* int modifierkeys
    pressedkey,      \* char pressedkey[8]
    mousebuttons,    \* char mousebuttons
    on,              \* unsigned char on (the mute toggle; 0 = muted)
    sctl,            \* the accepted control descriptor
    sint,            \* the accepted interrupt descriptor
    nready,          \* ready descriptors parse_events has still to read
    sent,            \* the reports that pass handed to send()
    stale,           \* the session has just been established, and pressedkey,
                     \* modifierkeys, mousebuttons were not all zero before
    result,          \* -x given: 'result' is allocated, stop_writing = 1
    sdphandle,       \* the SDP record is registered (the program runs without -s)
    eventdevs,       \* the input descriptors are open
    sockets,         \* the two listening sockets are open
    exitcode,        \* the exit status once pc = "exited"
    inevent,         \* the record the last pass of parse_events has read, as
                     \* far as a run keeps track of it (the translation runs do)
    fifoname,        \* char *fifoname of main(): NULL or the argument of -f
    evdevtab,        \* int eventdevs[MAXEVDEVS], the descriptors themselves
    efds,            \* fd_set efds of main()
    rdfds            \* the descriptors that parse_events has called read() on

vars == <<pc, prepareshutdown, connectionok, modifierkeys, pressedkey, mousebuttons,
          on, sctl, sint, nready, sent, stale, result, sdphandle,
          eventdevs, sockets, exitcode, inevent, fifoname, evdevtab, efds, rdfds>>

translator == <<modifierkeys, pressedkey, mousebuttons, on>>
inputs     == <<fifoname, evdevtab, efds, rdfds>>
config     == <<result, inevent, inputs>>
resources  == <<sdphandle, eventdevs, sockets, exitcode>>

\* the globals parse_events works on
State == [modifierkeys |-> modifierkeys, pressedkey |-> pressedkey,
          mousebuttons |-> mousebuttons, on |-> on]

Terminated == {"exited", "crashed"}

\* an accepted descriptor that the process still holds open
IsOpen(d) == d \in {"open", "peerclosed"}

\* the static array eventdevs[] before main() runs: all zero
ZeroTable == [i \in 0..(MAXEVDEVS - 1) |-> 0]

\* eventdevs[] with nothing open, as initevents clears it
ClosedTable == [i \in 0..(MAXEVDEVS - 1) |-> -1]

\* The input side as the runs of the main loop and of the translation find
\* it, which do not look at the descriptors: event0 opened as descriptor
\* MaxFd, nothing polled or read yet.
InputsOpened ==
    /\ fifoname = "NULL"
    /\ evdevtab = [ClosedTable EXCEPT ![0] = MaxFd]
    /\ efds = {}
    /\ rdfds = {}

Init ==
    /\ pc = "loop_top"
    /\ prepareshutdown = 0
    /\ connectionok = 0
    /\ modifierkeys = 0
    /\ pressedkey = NoKeys
    /\ mousebuttons = 0
    /\ on = 0
    /\ sctl = "none"
    /\ sint = "none"
    /\ nready = 0
    /\ sent = <<>>
    /\ stale = FALSE
    /\ result \in BOOLEAN
    /\ sdphandle = TRUE
    /\ eventdevs = TRUE
    /\ sockets = TRUE
    /\ exitcode = 0
    /\ inevent = NoEvent
    /\ InputsOpened

(* ---------------------------------------------------------------------- *)
(* main(): the main loop                                                   *)
(* ---------------------------------------------------------------------- *)

\* a step of main() that calls no parse_events
Quiet == sent' = <<>> /\ nready' = 0

\* while ( 0 == prepareshutdown ) { sint = sctl = 0; add_filedescriptors ...
LoopTop ==
    /\ pc = "loop_top"
    /\ IF prepareshutdown = 0
       THEN pc' = "drain1_select" /\ sint' = "none" /\ sctl' = "none"
       ELSE pc' = "teardown" /\ UNCHANGED <<sint, sctl>>
    /\ Quiet
    /\ UNCHANGED <<prepareshutdown, connectionok, translator, stale, config, resources>>

\* select() on the input descriptors reports n > 0 of them ready
SelectReady(at, parse) ==
    /\ pc = at
    /\ \E n \in 1..NumDevs : nready' = n
    /\ pc' = parse
    /\ sent' = <<>>
    /\ UNCHANGED <<prepareshutdown, connectionok, translator, sctl, sint, stale,
                   config, resources>>

\* select() on the input descriptors returns 0 (timeout) or -1
SelectIdle(at, after) ==
    /\ pc = at
    /\ pc' = after
    /\ Quiet
    /\ UNCHANGED <<prepareshutdown, connectionok, translator, sctl, sint, stale,
                   config, resources>>

\* the value parse_events returns
RetVal(ret) == IF ret = "fail" THEN -1 ELSE 0

\* if ( -1 > ( j = parse_events ( &efds, 0 ) ) ) { prepareshutdown = 1; break; }
DrainBack(j, select, end) ==
    IF -1 > j
    THEN prepareshutdown' = 1 /\ pc' = end /\ UNCHANGED <<connectionok, sint, sctl>>
    ELSE pc' = select /\ UNCHANGED <<prepareshutdown, connectionok, sint, sctl>>

\* the same with ( j < 0 ) for ( j < -1 ): every failure asks for the shutdown
ConnBackTerminate(j) ==
    IF 0 > j
    THEN /\ connectionok' = 0
         /\ sint' = "closed" /\ sctl' = "closed" /\ prepareshutdown' = 1
         /\ pc' = "conn_outer"
    ELSE pc' = "conn_select" /\ UNCHANGED <<prepareshutdown, connectionok, sint, sctl>>

\* if ( 0 > ( j = parse_events ( &efds, sint ) ) )
\* { connectionok = 0; if ( j < -1 ) { close, close, prepareshutdown = 1; } break; }
ConnBack(j) ==
    IF 0 > j
    THEN /\ connectionok' = 0
         /\ IF j < -1
            THEN sint' = "closed" /\ sctl' = "closed" /\ prepareshutdown' = 1
            ELSE UNCHANGED <<sint, sctl, prepareshutdown>>
         /\ pc' = "conn_outer"
    ELSE pc' = "conn_select" /\ UNCHANGED <<prepareshutdown, connectionok, sint, sctl>>

\* what the caller does with the value parse_events returned
Back(at, j) ==
    IF at = "drain1_parse" THEN DrainBack(j, "drain1_select", "drain1_end")
    ELSE IF at = "drain2_parse" THEN DrainBack(j, "drain2_select", "drain2_end")
    ELSE ConnBack(j)

\* the pass that reads rd where no send() fails, o, and the same pass with
\* each of its send() calls failing
WithFails(rd, o) ==
    {o} \cup { ParseOne(rd, State, connectionok # 0, result, fail) :
                 fail \in Fails(Len(o.sent)) \ {NoFail} }

\* What one pass of the for-loop body can leave from the current state:
\* over the records read and over which of its send() calls fails.
Passes(reads) ==
    UNION { WithFails(rd, ParseOne(rd, State, connectionok # 0, result, NoFail)) :
            rd \in reads }

\* One pass of the for-loop of parse_events, and, when it was the last
\* ready descriptor or the pass returned, what the caller does with the
\* value returned.
ParseStep(at, reads) ==
    /\ pc = at
    /\ \E o \in Passes(reads) :
              /\ modifierkeys' = o.modifierkeys
              /\ pressedkey' = o.pressedkey
              /\ mousebuttons' = o.mousebuttons
              /\ on' = o.on
              /\ sent' = o.sent
              /\ IF o.ret = "exit"
                 THEN /\ pc' = "exited" /\ exitcode' = 0 /\ nready' = 0
                      /\ UNCHANGED <<prepareshutdown, connectionok, sint, sctl>>
                 ELSE IF o.ret = "undefined"
                 THEN /\ pc' \in UbOutcomes /\ nready' = 0
                      /\ UNCHANGED <<prepareshutdown, connectionok, sint, sctl, exitcode>>
                 ELSE IF o.ret = "next" /\ nready > 1
                 THEN /\ pc' = at /\ nready' = nready - 1
                      /\ UNCHANGED <<prepareshutdown, connectionok, sint, sctl, exitcode>>
                 ELSE /\ nready' = 0
                      /\ Back(at, RetVal(o.ret))
                      /\ UNCHANGED exitcode
    /\ UNCHANGED <<stale, result, inputs, sdphandle, eventdevs, sockets>>

\* the drain between two sessions
Drain1Ready == SelectReady("drain1_select", "drain1_parse")

Drain1Idle == SelectIdle("drain1_select", "drain1_end")

Drain1Parse == ParseStep("drain1_parse", Reads) /\ UNCHANGED inevent

\* if ( prepareshutdown ) break; connectionok = 0;
Drain1End ==
    /\ pc = "drain1_end"
    /\ IF prepareshutdown # 0
       THEN pc' = "teardown" /\ UNCHANGED connectionok
       ELSE pc' = "ctl_select" /\ connectionok' = 0
    /\ Quiet
    /\ UNCHANGED <<prepareshutdown, translator, sctl, sint, stale, config, resources>>

\* a step of the connection set-up that leaves the loop iteration: continue
Continue ==
    /\ pc' = "loop_top"
    /\ Quiet
    /\ UNCHANGED <<prepareshutdown, connectionok, translator, stale, config, resources>>

\* return n from main() inside the loop
Return(n) ==
    /\ pc' = "exited" /\ exitcode' = n
    /\ Quiet
    /\ UNCHANGED <<prepareshutdown, connectionok, translator, sctl, sint, stale,
                   config, sdphandle, eventdevs, sockets>>

\* select on sockctl: timeout (j == 0) or EINTR
CtlSelectIdle == pc = "ctl_select" /\ Continue /\ UNCHANGED <<sctl, sint>>

\* select on sockctl fails otherwise: return 11
CtlSelectError == pc = "ctl_select" /\ Return(11)

\* accept on sockctl fails
CtlAcceptFail == pc = "ctl_select" /\ Continue /\ UNCHANGED <<sctl, sint>>

\* sctl = accept ( sockctl, ... )
CtlAccept ==
    /\ pc = "ctl_select"
    /\ sctl' = "open"
    /\ pc' = "int_select"
    /\ Quiet
    /\ UNCHANGED <<prepareshutdown, connectionok, translator, sint, stale, config, resources>>

\* select on sockint is interrupted (EINTR): close ( sctl ); continue;
IntSelectEintr == pc = "int_select" /\ sctl' = "closed" /\ Continue /\ UNCHANGED sint

\* select on sockint fails otherwise: return 12
IntSelectError == pc = "int_select" /\ Return(12)

\* the timeout without the close ( sctl )
IntSelectTimeoutNoClose == pc = "int_select" /\ Continue /\ UNCHANGED <<sctl, sint>>

\* no interrupt connection within 3 seconds: close ( sctl ); continue;
IntSelectTimeout == pc = "int_select" /\ sctl' = "closed" /\ Continue /\ UNCHANGED sint

\* accept on sockint fails: close ( sctl ); continue;
IntAcceptFail == pc = "int_select" /\ sctl' = "closed" /\ Continue /\ UNCHANGED sint

\* sint = accept ( sockint, ... )
IntAccept ==
    /\ pc = "int_select"
    /\ sint' = "open"
    /\ pc' = "drain2_select"
    /\ Quiet
    /\ UNCHANGED <<prepareshutdown, connectionok, translator, sctl, stale, config, resources>>

\* the drain behind the negotiation
Drain2Ready == SelectReady("drain2_select", "drain2_parse")

Drain2Idle == SelectIdle("drain2_select", "drain2_end")

Drain2Parse == ParseStep("drain2_parse", Reads) /\ UNCHANGED inevent

\* the end of the second drain without the memset of pressedkey
Drain2EndNoMemset ==
    /\ pc = "drain2_end"
    /\ IF prepareshutdown # 0
       THEN /\ pc' = "teardown"
            /\ UNCHANGED <<connectionok, modifierkeys, pressedkey, mousebuttons, stale>>
       ELSE /\ pc' = "conn_outer"
            /\ connectionok' = 1
            /\ modifierkeys' = 0
            /\ mousebuttons' = 0
            /\ stale' = (pressedkey # NoKeys \/ modifierkeys # 0 \/ mousebuttons # 0)
            /\ UNCHANGED pressedkey
    /\ Quiet
    /\ UNCHANGED <<prepareshutdown, on, sctl, sint, config, resources>>

\* if ( prepareshutdown ) break;
\* connectionok = 1; memset ( pressedkey, 0, 8 ); modifierkeys = 0; mousebuttons = 0;
Drain2End ==
    /\ pc = "drain2_end"
    /\ IF prepareshutdown # 0
       THEN /\ pc' = "teardown"
            /\ UNCHANGED <<connectionok, modifierkeys, pressedkey, mousebuttons, stale>>
       ELSE /\ pc' = "conn_outer"
            /\ connectionok' = 1
            /\ pressedkey' = NoKeys
            /\ modifierkeys' = 0
            /\ mousebuttons' = 0
            /\ stale' = (pressedkey # NoKeys \/ modifierkeys # 0 \/ mousebuttons # 0)
    /\ Quiet
    /\ UNCHANGED <<prepareshutdown, on, sctl, sint, config, resources>>

\* while ( connectionok ) { add_filedescriptors ...
ConnOuter ==
    /\ pc = "conn_outer"
    /\ pc' = IF connectionok # 0 THEN "conn_select" ELSE "closing"
    /\ stale' = FALSE
    /\ Quiet
    /\ UNCHANGED <<prepareshutdown, connectionok, translator, sctl, sint,
                   config, resources>>

ConnReady == SelectReady("conn_select", "conn_parse")

ConnIdle == SelectIdle("conn_select", "conn_outer")

ConnParse == ParseStep("conn_parse", Reads) /\ UNCHANGED inevent

\* connectionok = 0; close ( sint ); close ( sctl ); ... usleep ( 500000 );
Closing ==
    /\ pc = "closing"
    /\ connectionok' = 0
    /\ sint' = "closed"
    /\ sctl' = "closed"
    /\ pc' = "loop_top"
    /\ Quiet
    /\ UNCHANGED <<prepareshutdown, translator, stale, config, resources>>

\* behind the loop: close the listening sockets, sdpunregister, close the
\* input sources, return 0
Teardown ==
    /\ pc = "teardown"
    /\ sockets' = FALSE
    /\ sdphandle' = FALSE
    /\ eventdevs' = FALSE
    /\ pc' = "exited"
    /\ exitcode' = 0
    /\ Quiet
    /\ UNCHANGED <<prepareshutdown, connectionok, translator, sctl, sint, stale, config>>

(* ---------------------------------------------------------------------- *)
(* onsignal() and the remote side                                          *)
(* ---------------------------------------------------------------------- *)

Signals == {"SIGINT", "SIGTERM", "SIGHUP"}

\* the handler without the test of connectionok
HandlerAlways(i, conn, flag) == 1

\* prepareshutdown as onsignal(i) leaves it
Handler(i, conn, flag) ==
    IF i = "SIGINT" /\ conn # 0 THEN flag ELSE 1

\* a signal is delivered: the handler runs between two steps of main()
onsignal ==
    /\ pc \notin Terminated
    /\ prepareshutdown' \in { Handler(i, connectionok, prepareshutdown) : i \in Signals }
    /\ UNCHANGED <<pc, connectionok, translator, sctl, sint, nready, sent, stale,
                   config, resources>>

\* the remote host closes its end of the control channel
RemoteClosesControl ==
    /\ pc \notin Terminated
    /\ sctl = "open"
    /\ sctl' = "peerclosed"
    /\ UNCHANGED <<pc, prepareshutdown, connectionok, translator, sint, nready,
                   sent, stale, config, resources>>

(* ---------------------------------------------------------------------- *)
(* Specifications                                                          *)
(* ---------------------------------------------------------------------- *)

\* the steps of main()
MainFlow ==
    \/ LoopTop
    \/ Drain1Ready \/ Drain1Idle \/ Drain1Parse \/ Drain1End
    \/ CtlSelectIdle \/ CtlSelectError \/ CtlAcceptFail \/ CtlAccept
    \/ IntSelectEintr \/ IntSelectError \/ IntSelectTimeout \/ IntAcceptFail \/ IntAccept
    \/ Drain2Ready \/ Drain2Idle \/ Drain2Parse \/ Drain2End
    \/ ConnOuter \/ ConnReady \/ ConnIdle \/ ConnParse
    \/ Closing
    \/ Teardown

Next == MainFlow \/ onsignal

Spec == Init /\ [][Next]_vars

\* The frame of the liveness properties: main() and the signals as above,
\* the remote side closing the control channel, and input sources that
\* deliver the press and the release of one key, a mouse movement or
\* nothing at all.
FairReads ==
    { Rd("event", "EV_KEY", "KEY_A", v) : v \in {0, 1} }
    \cup { Rd("event", "EV_REL", "REL_X", 1), Rd("eof", "", "", 0) }

FairDrain1Parse == ParseStep("drain1_parse", FairReads) /\ UNCHANGED inevent

FairDrain2Parse == ParseStep("drain2_parse", FairReads) /\ UNCHANGED inevent

FairConnParse == ParseStep("conn_parse", FairReads) /\ UNCHANGED inevent

FairFlow ==
    \/ LoopTop
    \/ Drain1Ready \/ Drain1Idle \/ FairDrain1Parse \/ Drain1End
    \/ CtlSelectIdle \/ CtlSelectError \/ CtlAcceptFail \/ CtlAccept
    \/ IntSelectEintr \/ IntSelectError \/ IntSelectTimeout \/ IntAcceptFail \/ IntAccept
    \/ Drain2Ready \/ Drain2Idle \/ FairDrain2Parse \/ Drain2End
    \/ ConnOuter \/ ConnReady \/ ConnIdle \/ FairConnParse
    \/ Closing
    \/ Teardown

FairNext == FairFlow \/ onsignal \/ RemoteClosesControl

\* main() keeps running, and every select on the input sources that is
\* tried again and again times out in the end
FairSpec ==
    /\ Init /\ [][FairNext]_vars
    /\ WF_vars(FairFlow)
    /\ SF_vars(Drain1Idle) /\ SF_vars(Drain2Idle) /\ SF_vars(ConnIdle)

\* The same steps where nothing is assumed of the input sources: main()
\* keeps running, and a select on the input descriptors may report a
\* descriptor ready every time it is called (events that keep arriving, or
\* a descriptor at its end of file, which select reports readable and read()
\* answers with 0).
BusySpec == Init /\ [][FairNext]_vars /\ WF_vars(FairFlow)

\* The frame of the claims about the translation alone: one call of
\* parse_events in a running session with MaxEvents descriptors ready, which
\* deliver the regular keys, the six layer selectors, LCtrl and the press
\* of PAUSE.  The call
\* starts with no key held, with one selector of each group held, or with
\* seven or eight other keys held.
SelectorKeys ==
    {"KEY_LEFTSHIFT", "KEY_RIGHTSHIFT", "KEY_CAPSLOCK", "KEY_BACKSLASH",
     "KEY_102ND", "KEY_RIGHTALT"}

TableKeys == RegularKeys \cup {"KEY_ENTER"}

KeyReads ==
    { Rd("event", "EV_KEY", c, v) : c \in TableKeys, v \in {0, 1, 2} }
    \cup { Rd("event", "EV_KEY", c, v) : c \in SelectorKeys \cup {"KEY_LEFTCTRL"},
                                         v \in {0, 1} }
    \cup { Rd("event", "EV_KEY", "KEY_PAUSE", 1) }

\* modifierkeys with none of LShift, CapsLock, RAlt held or with all three
HeldSelectors ==
    {0, ModifierCases["KEY_LEFTSHIFT"] + ModifierCases["KEY_CAPSLOCK"]
          + ModifierCases["KEY_RIGHTALT"]}

\* pressedkey after the presses of F1 .. Fn on the base layer
HeldKeys == <<"KEY_F1", "KEY_F2", "KEY_F3", "KEY_F4", "KEY_F5", "KEY_F6", "KEY_F7", "KEY_F8">>

Prefill(n) ==
    [i \in 1..8 |-> IF i <= n THEN Chars(FallThrough(HeldKeys[i]), 0, 1) ELSE 0]

KeyInit ==
    /\ pc = "conn_parse"
    /\ prepareshutdown = 0
    /\ connectionok = 1
    /\ \/ pressedkey = NoKeys /\ modifierkeys \in HeldSelectors
       \/ pressedkey \in {Prefill(7), Prefill(8)} /\ modifierkeys = 0
    /\ mousebuttons = 0
    /\ on \in {0, 1}
    /\ sctl = "open"
    /\ sint = "open"
    /\ nready = MaxEvents
    /\ sent = <<>>
    /\ stale = FALSE
    /\ result = FALSE
    /\ sdphandle = TRUE
    /\ eventdevs = TRUE
    /\ sockets = TRUE
    /\ exitcode = 0
    /\ inevent = NoEvent
    /\ InputsOpened

\* one pass of the for-loop; the run keeps the record it has read
KeyParse ==
    \E rd \in KeyReads : ParseStep("conn_parse", {rd}) /\ inevent' = rd

KeyNext == KeyParse

KeySpec == KeyInit /\ [][KeyNext]_vars

(* ---------------------------------------------------------------------- *)
(* The input descriptors: start-up of main() and the polling               *)
(* ---------------------------------------------------------------------- *)

\* the descriptors open() can hand out: every one but the standard input
Fds == (Stdin + 1)..MaxFd

\* the device nodes that can exist
Nodes == 0..(MaxNodes - 1)

SetMin(S) == CHOOSE x \in S : \A y \in S : x <= y

\* open(): the lowest free descriptor, or -1 when the file cannot be opened
\* or no descriptor is free
open(exists, free) == IF exists /\ free # {} THEN SetMin(free) ELSE -1

\* The second loop of initevents from node j on, with i descriptors stored:
\* every node is tried, or only node useonlyone; the result of open() is
\* stored at index i, and i moves on when the open has succeeded.
RECURSIVE OpenLoop(_, _, _, _, _, _)
OpenLoop(useonlyone, present, free, tab, i, j) ==
    IF j = MAXEVDEVS THEN [eventdevs |-> tab, i |-> i]
    ELSE IF useonlyone >= 0 /\ useonlyone # j
         THEN OpenLoop(useonlyone, present, free, tab, i, j + 1)
         ELSE LET fd == open(j \in present, free)
              IN  IF 0 <= fd
                  THEN OpenLoop(useonlyone, present, free \ {fd},
                                [tab EXCEPT ![i] = fd], i + 1, j + 1)
                  ELSE OpenLoop(useonlyone, present, free,
                                [tab EXCEPT ![i] = fd], i, j + 1)

\* initevents: clears the whole table, then opens the nodes; returns the
\* number of descriptors opened
initevents(useonlyone, present, free) ==
    OpenLoop(useonlyone, present, free, ClosedTable, 0, 0)

\* what stat, mkfifo and open make of the file name given with -f
FifoOutcomes == {"not_fifo", "mkfifo_failed", "open_failed", "opened"}

\* initfifo: stores the descriptor of the FIFO in eventdevs[0] and touches
\* no other entry; returns 1 when the FIFO is open, else 0
initfifo(tab, outcome, free) ==
    IF outcome \in {"not_fifo", "mkfifo_failed"}
    THEN [eventdevs |-> tab, ret |-> 0]
    ELSE LET fd == open(outcome = "opened", free)
         IN  [eventdevs |-> [tab EXCEPT ![0] = fd],
              ret |-> IF 0 > fd THEN 0 ELSE 1]

\* add_filedescriptors: the set of all entries >= 0 of the table, and the
\* greatest of them (-1 when there is none)
add_filedescriptors(tab) ==
    LET fds == { tab[i] : i \in { k \in DOMAIN tab : tab[k] >= 0 } }
    IN  [fds |-> fds,
         j |-> IF fds = {} THEN -1 ELSE CHOOSE x \in fds : \A y \in fds : y <= x]

\* The for-loop of parse_events over the table, as far as the descriptors
\* go: read() is called on every entry >= 0 that is set in efds, for the
\* indices below n (a pass that returns early stops at a smaller n).
ReadBy(tab, fdset, n) ==
    { tab[i] : i \in { k \in DOMAIN tab : k < n /\ tab[k] >= 0 /\ tab[k] \in fdset } }

\* the indices behind which a pass can end: behind any record it has read,
\* or at the end of the table
PassEnds(tab, fdset) ==
    { k + 1 : k \in { i \in DOMAIN tab : tab[i] >= 0 /\ tab[i] \in fdset } }
    \cup {MAXEVDEVS}

\* the select loops of the main loop on the input descriptors, in the order
\* main() comes to them: the two drains and the session
SelectLoops == {"drain1", "drain2", "conn"}

\* the loop that follows when this one has ended (the session is left only
\* by its end, which the polling does not follow)
NextLoop(l) == IF l = "drain1" THEN "drain2" ELSE "conn"

AtSelect(l) == l \o "_select"

AtParse(l) == l \o "_parse"

StartInit ==
    /\ pc = "main"
    /\ prepareshutdown = 0
    /\ connectionok = 0
    /\ modifierkeys = 0
    /\ pressedkey = NoKeys
    /\ mousebuttons = 0
    /\ on = 0
    /\ sctl = "none"
    /\ sint = "none"
    /\ nready = 0
    /\ sent = <<>>
    /\ stale = FALSE
    /\ result \in BOOLEAN
    /\ sdphandle = TRUE
    /\ eventdevs = FALSE
    /\ sockets = FALSE
    /\ exitcode = 0
    /\ inevent = NoEvent
    /\ fifoname \in {"NULL", "fifo"}
    /\ evdevtab = ZeroTable
    /\ efds = {}
    /\ rdfds = {}

\* what the start-up and the polling leave alone
StartFrame ==
    UNCHANGED <<prepareshutdown, connectionok, translator, sctl, sint, nready,
                sent, stale, result, sdphandle, sockets, inevent, fifoname>>

\* main() without -f: initevents, and return 2 when nothing was opened
InitEvents ==
    /\ pc = "main" /\ fifoname = "NULL"
    /\ \E useonlyone \in {-1} \cup Nodes, present \in SUBSET Nodes,
          free \in SUBSET Fds :
          \E r \in {initevents(useonlyone, present, free)} :
             /\ evdevtab' = r.eventdevs
             /\ IF 1 > r.i
                THEN pc' = "exited" /\ exitcode' = 2 /\ eventdevs' = FALSE
                ELSE pc' = "organize" /\ exitcode' = exitcode /\ eventdevs' = TRUE
    /\ UNCHANGED <<efds, rdfds>>
    /\ StartFrame

\* main() with -f: initfifo, and return 2 when the FIFO is not open
InitFifo ==
    /\ pc = "main" /\ fifoname # "NULL"
    /\ \E outcome \in FifoOutcomes, free \in SUBSET Fds :
          \E r \in {initfifo(evdevtab, outcome, free)} :
             /\ evdevtab' = r.eventdevs
             /\ IF 1 > r.ret
                THEN pc' = "exited" /\ exitcode' = 2 /\ eventdevs' = FALSE
                ELSE pc' = "organize" /\ exitcode' = exitcode /\ eventdevs' = TRUE
    /\ UNCHANGED <<efds, rdfds>>
    /\ StartFrame

\* main(): the first add_filedescriptors, and return 13 when the greatest
\* descriptor is not above 0; then the sockets and the main loop, which
\* fills efds again before each of its select loops
Organize ==
    /\ pc = "organize"
    /\ \E r \in {add_filedescriptors(evdevtab)} :
          /\ efds' = r.fds
          /\ IF r.j <= 0
             THEN pc' = "exited" /\ exitcode' = 13 /\ sockets' = sockets
             ELSE /\ pc' = AtSelect("drain1")
                  /\ exitcode' = exitcode /\ sockets' = TRUE
    /\ UNCHANGED <<prepareshutdown, connectionok, translator, sctl, sint, nready,
                   sent, stale, result, sdphandle, eventdevs, inevent, fifoname,
                   evdevtab, rdfds>>

\* select(maxevdevfileno + 1, &efds, ...) > 0: efds keeps the descriptors
\* that are ready, at least one
PollReady ==
    /\ \E l \in SelectLoops :
          /\ pc = AtSelect(l)
          /\ pc' = AtParse(l)
    /\ \E ready \in SUBSET efds :
          /\ ready # {}
          /\ efds' = ready
    /\ UNCHANGED <<evdevtab, rdfds, eventdevs, exitcode>>
    /\ StartFrame

\* select() = 0: the select loop ends, and the main loop comes to its next
\* select loop, with add_filedescriptors before it
PollIdle ==
    /\ \E l \in SelectLoops :
          /\ pc = AtSelect(l)
          /\ pc' = AtSelect(NextLoop(l))
    /\ efds' = add_filedescriptors(evdevtab).fds
    /\ UNCHANGED <<evdevtab, rdfds, eventdevs, exitcode>>
    /\ StartFrame

\* parse_events(&efds, ...) reads the ready descriptors of the table, then
\* main() calls add_filedescriptors for the next select
PollParse ==
    /\ \E l \in SelectLoops :
          /\ pc = AtParse(l)
          /\ pc' = AtSelect(l)
    /\ \E n \in PassEnds(evdevtab, efds) :
          rdfds' = rdfds \cup ReadBy(evdevtab, efds, n)
    /\ efds' = add_filedescriptors(evdevtab).fds
    /\ UNCHANGED <<evdevtab, eventdevs, exitcode>>
    /\ StartFrame

StartNext ==
    \/ InitEvents
    \/ InitFifo
    \/ Organize
    \/ PollReady
    \/ PollIdle
    \/ PollParse

StartSpec == StartInit /\ [][StartNext]_vars

(* ---------------------------------------------------------------------- *)
(* One call of parse_events: failed reads, the mouse, unknown keys         *)
(* ---------------------------------------------------------------------- *)

\* What the ready descriptors deliver in these runs: a failed, an empty or
\* a short read, the three mouse buttons, the relative axes the switch
\* knows and one it does not know, a key the switch does not know, and one
\* regular key and LCtrl.
EventReads ==
    { Rd(k, "", "", 0) : k \in {"err", "eof", "short"} }
    \cup { Rd("event", "EV_KEY", c, v) : c \in ButtonCodes \cup {"KEY_MUTE"},
                                         v \in {0, 1, 2} }
    \cup { Rd("event", "EV_KEY", c, v) : c \in {"KEY_A", "KEY_LEFTCTRL"}, v \in {0, 1} }
    \cup { Rd("event", "EV_REL", c, v) : c \in RelCodes \cup {"REL_HWHEEL"},
                                         v \in {-1, 1} }

\* The call is the one of the second drain, behind both accepts, or one of
\* a session; MaxEvents descriptors are ready.
EventInit ==
    /\ \/ pc = "drain2_parse" /\ connectionok = 0
       \/ pc = "conn_parse" /\ connectionok = 1
    /\ prepareshutdown = 0
    /\ modifierkeys = 0
    /\ pressedkey = NoKeys
    /\ mousebuttons = 0
    /\ on \in {0, 1}
    /\ sctl = "open"
    /\ sint = "open"
    /\ nready = MaxEvents
    /\ sent = <<>>
    /\ stale = FALSE
    /\ result = FALSE
    /\ sdphandle = TRUE
    /\ eventdevs = TRUE
    /\ sockets = TRUE
    /\ exitcode = 0
    /\ inevent = NoEvent
    /\ InputsOpened

\* one pass of the for-loop; the run keeps the record it has read
EventParse ==
    \E rd \in EventReads, at \in {"drain2_parse", "conn_parse"} :
        ParseStep(at, {rd}) /\ inevent' = rd

EventNext == EventParse

EventSpec == EventInit /\ [][EventNext]_vars

(* ---------------------------------------------------------------------- *)
(* One event of parse_events: the modifier tracking                        *)
(* ---------------------------------------------------------------------- *)

\* the marker 0x8000 that pressedmod carries for the five real modifiers
Marker == 32768

\* the bit of modifierkeys that belongs to a modifier-like key
KeyBit(code) == ModifierCases[code] % Marker

\* the real modifiers among the modifier-like keys
RealModifiers == { c \in ModifierCodes : ModifierCases[c] >= Marker }

RECURSIVE KeyBits(_)
KeyBits(keys) ==
    IF keys = {} THEN 0
    ELSE LET c == CHOOSE k \in keys : TRUE
         IN  KeyBit(c) + KeyBits(keys \ {c})

\* modifierkeys as presses and releases in a session leave it with up to
\* MaxHeld keys held: the bits of the keys held, and the marker set or not
\* when a real modifier is among them (a press sets the marker, the release
\* of another real modifier clears it)
HeldModifiers ==
    { KeyBits(keys) + m :
        keys \in { h \in SUBSET ModifierCodes : Cardinality(h) <= MaxHeld },
        m \in {0, Marker} }
    \ { KeyBits(keys) + Marker :
          keys \in { h \in SUBSET (ModifierCodes \ RealModifiers) : Cardinality(h) <= MaxHeld } }

\* what the ready descriptor delivers in these runs: any event of the 11
\* modifier-like keys, of one regular key, of PRINT, of a mouse button and of
\* a key the switch does not know
ModReads ==
    { Rd("event", "EV_KEY", c, v) :
        c \in ModifierCodes \cup {"KEY_A", "KEY_SYSRQ", "BTN_LEFT", "KEY_MUTE"},
        v \in {0, 1, 2} }

\* a session in which one descriptor is ready
ModInit ==
    /\ pc = "conn_parse"
    /\ prepareshutdown = 0
    /\ connectionok = 1
    /\ modifierkeys \in HeldModifiers
    /\ pressedkey = NoKeys
    /\ mousebuttons = 0
    /\ on \in {0, 1}
    /\ sctl = "open"
    /\ sint = "open"
    /\ nready = 1
    /\ sent = <<>>
    /\ stale = FALSE
    /\ result = TRUE
    /\ sdphandle = TRUE
    /\ eventdevs = TRUE
    /\ sockets = TRUE
    /\ exitcode = 0
    /\ inevent = NoEvent
    /\ InputsOpened

\* the pass of the for-loop; the run keeps the record it has read
ModParse ==
    \E rd \in ModReads : ParseStep("conn_parse", {rd}) /\ inevent' = rd

ModNext == ModParse

ModSpec == ModInit /\ [][ModNext]_vars

(* ---------------------------------------------------------------------- *)
(* One call of parse_events: the PRINT key                                 *)
(* ---------------------------------------------------------------------- *)

\* What the ready descriptors deliver in these runs: any event of PRINT, of
\* one regular key and of a mouse button, the press and the release of LCtrl
\* and of RCtrl, and the press of a second regular key.
SessionKeyReads ==
    { Rd("event", "EV_KEY", c, v) : c \in {"KEY_SYSRQ", "KEY_A", "BTN_LEFT"},
                                     v \in {0, 1, 2} }
    \cup { Rd("event", "EV_KEY", c, v) : c \in {"KEY_LEFTCTRL", "KEY_RIGHTCTRL"},
                                         v \in {0, 1} }
    \cup { Rd("event", "EV_KEY", "KEY_B", 1) }

\* The call is the one of the second drain, behind both accepts, or the
\* first one of a session, muted or not; MaxEvents descriptors are ready.
SessionKeyInit ==
    /\ \/ pc = "drain2_parse" /\ connectionok = 0
       \/ pc = "conn_parse" /\ connectionok = 1
    /\ prepareshutdown = 0
    /\ modifierkeys = 0
    /\ pressedkey = NoKeys
    /\ mousebuttons = 0
    /\ on \in {0, 1}
    /\ sctl = "open"
    /\ sint = "open"
    /\ nready = MaxEvents
    /\ sent = <<>>
    /\ stale = FALSE
    /\ result = TRUE
    /\ sdphandle = TRUE
    /\ eventdevs = TRUE
    /\ sockets = TRUE
    /\ exitcode = 0
    /\ inevent = NoEvent
    /\ InputsOpened

\* one pass of the for-loop; the run keeps the record it has read
SessionKeyParse ==
    \E rd \in SessionKeyReads, at \in {"drain2_parse", "conn_parse"} :
        ParseStep(at, {rd}) /\ inevent' = rd

SessionKeyNext == SessionKeyParse

SessionKeySpec == SessionKeyInit /\ [][SessionKeyNext]_vars

(* ---------------------------------------------------------------------- *)
(* The main loop with the PRINT key: the mute toggle                       *)
(* ---------------------------------------------------------------------- *)

\* What the input sources deliver in these runs of the main loop: any event
\* of PRINT, the press and the release of LCtrl, the press of RCtrl and of a
\* regular key, or nothing at all.
ToggleReads ==
    { Rd("event", "EV_KEY", "KEY_SYSRQ", v) : v \in {0, 1, 2} }
    \cup { Rd("event", "EV_KEY", "KEY_LEFTCTRL", v) : v \in {0, 1} }
    \cup { Rd("event", "EV_KEY", c, 1) : c \in {"KEY_RIGHTCTRL", "KEY_A"} }
    \cup { Rd("eof", "", "", 0) }

\* the passes of parse_events in the three select loops; the run keeps the
\* record it has read
ToggleDrain1Parse ==
    \E rd \in ToggleReads : ParseStep("drain1_parse", {rd}) /\ inevent' = rd

ToggleDrain2Parse ==
    \E rd \in ToggleReads : ParseStep("drain2_parse", {rd}) /\ inevent' = rd

ToggleConnParse ==
    \E rd \in ToggleReads : ParseStep("conn_parse", {rd}) /\ inevent' = rd

ToggleFlow ==
    \/ LoopTop
    \/ Drain1Ready \/ Drain1Idle \/ ToggleDrain1Parse \/ Drain1End
    \/ CtlSelectIdle \/ CtlSelectError \/ CtlAcceptFail \/ CtlAccept
    \/ IntSelectEintr \/ IntSelectError \/ IntSelectTimeout \/ IntAcceptFail \/ IntAccept
    \/ Drain2Ready \/ Drain2Idle \/ ToggleDrain2Parse \/ Drain2End
    \/ ConnOuter \/ ConnReady \/ ConnIdle \/ ToggleConnParse
    \/ Closing
    \/ Teardown

ToggleNext == ToggleFlow \/ onsignal

\* the process from its start, 'on' as its initializer leaves it
ToggleSpec == Init /\ [][ToggleNext]_vars

(* ---------------------------------------------------------------------- *)
(* One event of parse_events: the table lookup                             *)
(* ---------------------------------------------------------------------- *)

\* every key code the inner switch has a case for, and one it has none for
AllKeyCodes ==
    RegularCodes \cup ModifierCodes \cup ButtonCodes \cup {"KEY_SYSRQ", "KEY_MUTE"}

\* what the ready descriptor delivers in these runs: the press or the
\* release of any of these keys
TableReads == { Rd("event", "EV_KEY", c, v) : c \in AllKeyCodes, v \in {0, 1} }

\* modifierkeys with any of LShift, CapsLock and RAlt held, one selector of
\* each group, and LCtrl held or not
SelectorStates ==
    { KeyBits(keys) + m :
        keys \in SUBSET {"KEY_LEFTSHIFT", "KEY_CAPSLOCK", "KEY_RIGHTALT"},
        m \in {0, ModifierCases["KEY_LEFTCTRL"]} }

\* an unmuted session in which one descriptor is ready and no key is stored
TableInit ==
    /\ pc = "conn_parse"
    /\ prepareshutdown = 0
    /\ connectionok = 1
    /\ modifierkeys \in SelectorStates
    /\ pressedkey = NoKeys
    /\ mousebuttons = 0
    /\ on = 1
    /\ sctl = "open"
    /\ sint = "open"
    /\ nready = 1
    /\ sent = <<>>
    /\ stale = FALSE
    /\ result = TRUE
    /\ sdphandle = TRUE
    /\ eventdevs = TRUE
    /\ sockets = TRUE
    /\ exitcode = 0
    /\ inevent = NoEvent
    /\ InputsOpened

\* the pass of the for-loop; the run keeps the record it has read
TableParse ==
    \E rd \in TableReads : ParseStep("conn_parse", {rd}) /\ inevent' = rd

TableNext == TableParse

TableSpec == TableInit /\ [][TableNext]_vars

(* ---------------------------------------------------------------------- *)
(* Properties                                                              *)
(* ---------------------------------------------------------------------- *)

\* a step of parse_events: it takes one ready descriptor off the list
ParseEventsStep == nready' < nready

\* C1: after any sequence of input events, no non-zero usage appears twice
\* in pressedkey[8] (that it holds at most 8 usages is the array's length).
PressedKeySetDistinct ==
    \A i, k \in 1..8 :
        (i # k /\ pressedkey[i] # 0) => pressedkey[i] # pressedkey[k]

\* C2: a report is handed to send() only by a pass of parse_events that
\* starts with connectionok = 1, inside the connected loop, behind both
\* accepts; the drains and the failed connection attempts send nothing.
NoReportUnlessConnected ==
    [][(ParseEventsStep /\ sent' # <<>>) =>
          /\ connectionok = 1
          /\ pc = "conn_parse"
          /\ IsOpen(sctl) /\ IsOpen(sint)]_vars

\* C2: behind both accepts the second drain has consumed a key press and a
\* button press, with nothing handed to send()
DrainConsumedWithoutSend ==
    /\ pc = "drain2_select"
    /\ IsOpen(sctl) /\ IsOpen(sint)
    /\ connectionok = 0
    /\ pressedkey # NoKeys /\ mousebuttons # 0
    /\ sent = <<>>

\* C3: the step that sets connectionok leaves pressedkey, modifierkeys and
\* mousebuttons zero, whatever the drains and earlier sessions left there.
ConnectedFromZeroedState ==
    [][(connectionok = 0 /\ connectionok' = 1) =>
          /\ pressedkey' = NoKeys
          /\ modifierkeys' = 0
          /\ mousebuttons' = 0]_vars

\* C3: a session has just become Connected where the drains had left keys,
\* modifiers or buttons behind, and all three are zero
ConnectedAfterStaleState ==
    /\ pc = "conn_outer" /\ connectionok = 1 /\ stale
    /\ pressedkey = NoKeys /\ modifierkeys = 0 /\ mousebuttons = 0

\* the calls of send() in parse_events
Sites == {"button", "final", "pass", "keyb", "rel"}

\* a pass of parse_events of a connected session in which a send() of one
\* of the calls in sites returned less than 1
FailedSend(sites) ==
    /\ ParseEventsStep
    /\ connectionok = 1
    /\ \E k \in 1..Len(sent') : sent'[k].res < 1 /\ sent'[k].site \in sites

\* what a failed send has main() do: leave the connected loop with the
\* session ended and the shutdown flag as it was
SessionEnds ==
    /\ connectionok' = 0
    /\ pc' = "conn_outer"
    /\ prepareshutdown' = prepareshutdown

\* behind the connected loop both descriptors are closed and the loop
\* starts over, waiting for the next control connection
ClosesAndWaits ==
    /\ (pc = "conn_outer" /\ connectionok = 0 /\ pc' # pc) => pc' = "closing"
    /\ (pc = "closing" /\ pc' # pc) =>
          /\ pc' = "loop_top" /\ connectionok' = 0
          /\ sint' = "closed" /\ sctl' = "closed"
          /\ prepareshutdown' = prepareshutdown
    /\ (pc = "loop_top" /\ prepareshutdown = 0 /\ pc' # pc) => pc' = "drain1_select"
    /\ (pc = "drain1_end" /\ prepareshutdown = 0 /\ pc' # pc) => pc' = "ctl_select"

\* C4 as stated: whenever a send fails while Connected, the session ends in
\* the same iteration of the main loop with both descriptors closed, the
\* process goes on, the shutdown flag is left alone and the loop waits for
\* the next control connection.
FailedSendEndsSession ==
    [][(FailedSend(Sites) => SessionEnds) /\ ClosesAndWaits]_vars

\* C4 as amended: the same for every send but the final all-keys-released
\* report of LCtrl+PRINT, whose result nobody looks at.
FailedReportEndsSession ==
    [][(FailedSend(Sites \ {"final"}) => SessionEnds) /\ ClosesAndWaits]_vars

\* C4: the send of a keyboard report has just failed in a session, which
\* has ended with the shutdown flag clear
KeyboardReportFailed ==
    /\ pc = "conn_outer" /\ connectionok = 0 /\ prepareshutdown = 0
    /\ sent # <<>>
    /\ sent[Len(sent)].site = "keyb" /\ sent[Len(sent)].res < 1

\* C5: every way back to the loop top from the wait for the interrupt
\* connection (timeout, failed accept) closes the accepted control
\* descriptor, keeps the process running and has sent no report.
InterruptWaitFailureClosesControl ==
    [][(pc = "int_select" /\ pc' = "loop_top") =>
          /\ sctl' = "closed" /\ sint' = "none"
          /\ sent = <<>> /\ sent' = <<>>
          /\ connectionok' = 0
          /\ UNCHANGED <<prepareshutdown, resources>>]_vars

\* C5: a connection attempt has been given up behind the control accept
ControlClosedWithoutInterrupt ==
    pc = "loop_top" /\ sctl = "closed" /\ sint = "none" /\ prepareshutdown = 0

\* C6: once the shutdown flag is set the process terminates, in whatever
\* phase main() is, as long as the selects on the input sources time out.
ShutdownFlagTerminates == (prepareshutdown = 1) ~> (pc \in Terminated)

\* C7: wherever main() stands, SIGTERM and SIGHUP set the shutdown flag,
\* SIGINT sets it when connectionok = 0 and leaves it alone otherwise, and
\* a step that does not move main() changes nothing but the flag.
SignalHandlerContract ==
    [][/\ pc \notin Terminated =>
            /\ Handler("SIGTERM", connectionok, prepareshutdown) = 1
            /\ Handler("SIGHUP", connectionok, prepareshutdown) = 1
            /\ Handler("SIGINT", connectionok, prepareshutdown) =
                   IF connectionok = 1 THEN prepareshutdown ELSE 1
       /\ (pc' = pc /\ nready' = nready) =>
            /\ prepareshutdown' = 1
            /\ UNCHANGED <<pc, connectionok, translator, sctl, sint, nready, sent,
                           stale, config, resources>>]_vars

\* C7: a terminate-class signal has set the flag in a running session
FlagSetWhileConnected ==
    pc = "conn_select" /\ connectionok = 1 /\ prepareshutdown = 1

\* C8: whenever the process has exited with status 0, the accepted
\* descriptors are closed, the SDP record is unregistered and the input
\* sources are closed.
ExitThroughTeardown ==
    (pc = "exited" /\ exitcode = 0) =>
        /\ ~IsOpen(sctl) /\ ~IsOpen(sint)
        /\ ~sdphandle /\ ~eventdevs /\ ~sockets

\* a pass of parse_events that reads the release of KEY_SYSRQ
SysRqRelease ==
    \E at \in {"drain1_parse", "drain2_parse", "conn_parse"} :
        ParseStep(at, {Rd("event", "EV_KEY", "KEY_SYSRQ", 0)})

\* the final report of LCtrl+PRINT: sent once if connected, else not at all
FinalReport ==
    IF connectionok = 1
    THEN /\ Len(sent') = 1
         /\ sent'[1].site = "final"
         /\ sent'[1].rep = KeybReport(0, NoKeys)
    ELSE sent' = <<>>

\* C9 as stated, for a connected session: the release of PRINT with LCtrl
\* held and LAlt not held sends the final report and ends the session
\* only: the flag stays clear and the process goes on through Closing.
StopKeyEndsSessionOnly ==
    [][(/\ ParseEventsStep /\ connectionok = 1
        /\ BitAnd(modifierkeys, 1) = 1 /\ BitAnd(modifierkeys, 4) = 0
        /\ SysRqRelease) =>
          /\ FinalReport
          /\ pc' \notin Terminated
          /\ prepareshutdown' = prepareshutdown
          /\ connectionok' = 0 /\ pc' = "conn_outer"]_vars

\* C9 as amended: the release of PRINT with LCtrl held sends the final
\* report if connected and then stops the process where it stands, with
\* status 0 when -x has allocated the command buffer: no Closing, no
\* teardown, the flag, the descriptors and the translator left as they were.
StopKeyEndsProcess ==
    [][(ParseEventsStep /\ BitAnd(modifierkeys, 1) = 1 /\ SysRqRelease) =>
          /\ FinalReport
          /\ pc' \in Terminated
          /\ result => (pc' = "exited" /\ exitcode' = 0)
          /\ UNCHANGED <<prepareshutdown, connectionok, translator, sctl, sint,
                         sdphandle, eventdevs, sockets>>]_vars

\* C9: LCtrl+PRINT has stopped the process in a session, behind the final
\* report
StoppedByStopKey ==
    /\ pc = "exited" /\ exitcode = 0 /\ connectionok = 1 /\ prepareshutdown = 0
    /\ BitAnd(modifierkeys, 1) = 1
    /\ Len(sent) = 1 /\ sent[1].site = "final"
    /\ IsOpen(sint) /\ sdphandle

\* C10: once the remote has closed the control channel of a connected
\* session, the session ends.
ControlCloseEndsSession ==
    (sctl = "peerclosed" /\ connectionok = 1) ~> (connectionok = 0 \/ pc \in Terminated)

\* C12: the release of PRINT with LCtrl held, in a session or in a drain,
\* with or without -x, sends the final report if connected and ends the
\* process with exit status 0.
StopKeyExitsWithZero ==
    [][(ParseEventsStep /\ BitAnd(modifierkeys, 1) = 1 /\ SysRqRelease) =>
          /\ FinalReport
          /\ pc' = "exited" /\ exitcode' = 0]_vars

\* the selector groups of the layer resolution, as bits of modifierkeys:
\* group 1 the two shift keys, group 2 CapsLock and Backslash, group 3
\* the 102ND key and RightAlt
GroupBits == <<34, 768, 1088>>

Groups(mk) == { g \in 1..3 : BitAnd(mk, GroupBits[g]) # 0 }

\* a pass of parse_events that has read the press of one of these keys
KeyPress(keys) == ParseEventsStep /\ inevent'.value = 1 /\ inevent'.code \in keys

\* C11: the press of PAUSE in a session ends the session, so that main()
\* closes both descriptors and waits for the next connection; with LCtrl
\* and LAlt held it asks for the shutdown as well.
PauseDropsConnection ==
    [][KeyPress({"KEY_PAUSE"}) =>
          /\ connectionok' = 0 /\ pc' = "conn_outer"
          /\ prepareshutdown' =
                 IF BitAnd(modifierkeys, 5) = 5 THEN 1 ELSE prepareshutdown]_vars

\* What the press of a regular key does when the lookup uses this layer:
\* the usage of that layer goes into pressedkey as a press puts it there,
\* and a mapped usage is reported with the modifier byte of that layer.
PressedOnLayer(code, layer) ==
    LET u == FallThrough(code)
        printchar == Chars(u, layer, 1)
    IN  /\ pressedkey' = PressLoop(pressedkey, printchar, 0).pressedkey
        /\ on = 1 => Len(sent') = 1
        /\ (printchar # 0 /\ sent' # <<>>) =>
               sent'[1].rep = KeybReport(Chars(u, layer, 0), pressedkey')

\* C13: with no selector group active in modifierkeys after the event the
\* press of any regular key is translated on layer 0, with exactly one
\* group active on the layer of that group's number.
LayerOfOneGroup ==
    [][(KeyPress(TableKeys) /\ Cardinality(Groups(modifierkeys')) <= 1) =>
          LET layer == IF Groups(modifierkeys') = {} THEN 0
                       ELSE CHOOSE g \in Groups(modifierkeys') : TRUE
          IN  /\ Layer(LayerMod(modifierkeys')) = layer
              /\ PressedOnLayer(inevent'.code, layer)]_vars

\* C13: KEY_A has been pressed with only RightShift held and was reported
\* from layer 1 of its row
PressedWithOneGroup ==
    /\ inevent = Rd("event", "EV_KEY", "KEY_A", 1)
    /\ modifierkeys = ModifierCases["KEY_RIGHTSHIFT"]
    /\ pressedkey[1] = Chars(4, 1, 1)
    /\ sent # <<>> /\ sent[1].rep = KeybReport(Chars(4, 1, 0), pressedkey)

\* C14 as stated: with the groups 1 and 3 both active, group 2 active or
\* not, the press of any regular key is translated on layer 5, not on 1 or 3.
LayerFiveOfGroupsOneThree ==
    [][(KeyPress(TableKeys) /\ {1, 3} \subseteq Groups(modifierkeys')) =>
          /\ Layer(LayerMod(modifierkeys')) = 5
          /\ PressedOnLayer(inevent'.code, 5)]_vars

\* C14 as amended: layer 5 belongs to the groups 2 and 3; with both active,
\* group 1 active or not, the press of any regular key is translated on
\* layer 5, not on 2, 3 or 4, and with the groups 1 and 3 alone on layer 3.
LayerFiveOfGroupsTwoThree ==
    [][KeyPress(TableKeys) =>
          /\ {2, 3} \subseteq Groups(modifierkeys') =>
                /\ Layer(LayerMod(modifierkeys')) = 5
                /\ PressedOnLayer(inevent'.code, 5)
          /\ Groups(modifierkeys') = {1, 3} =>
                /\ Layer(LayerMod(modifierkeys')) = 3
                /\ PressedOnLayer(inevent'.code, 3)]_vars

\* C14: KEY_ENTER has been pressed with CapsLock and RightAlt held and was
\* reported with the modifier byte of layer 5, not that of layer 3
PressedWithGroupsTwoThree ==
    /\ inevent = Rd("event", "EV_KEY", "KEY_ENTER", 1)
    /\ Groups(modifierkeys) = {2, 3}
    /\ pressedkey[1] = Chars(FallThrough("KEY_ENTER"), 5, 1)
    /\ sent # <<>>
    /\ sent[1].rep = KeybReport(Chars(FallThrough("KEY_ENTER"), 5, 0), pressedkey)
    /\ sent[1].rep # KeybReport(Chars(FallThrough("KEY_ENTER"), 3, 0), pressedkey)

\* C15: with the groups 1 and 2 active and group 3 not, the press of any
\* regular key is translated on layer 4, not on 1 or 2.
LayerFourOfGroupsOneTwo ==
    [][(KeyPress(TableKeys) /\ Groups(modifierkeys') = {1, 2}) =>
          /\ Layer(LayerMod(modifierkeys')) = 4
          /\ PressedOnLayer(inevent'.code, 4)]_vars

\* C15: KEY_A has been pressed with LeftShift and CapsLock held; layer 4 of
\* its row is unmapped, so the report shows no key
PressedWithGroupsOneTwo ==
    /\ inevent = Rd("event", "EV_KEY", "KEY_A", 1)
    /\ Groups(modifierkeys) = {1, 2}
    /\ pressedkey = NoKeys
    /\ sent # <<>> /\ sent[1].rep = KeybReport(0, NoKeys)

\* the usage a pass looks up for a regular key, the modifiers as it leaves them
Resolved(code) == Chars(FallThrough(code), Layer(LayerMod(modifierkeys')), 1)

\* the key array of a keyboard report
KeysOf(report) == { report[i] : i \in 4..11 }

\* C16: the report of a press whose table entry is mapped carries the modifier
\* byte of that entry, whatever real modifier is held, and, if pressedkey had
\* a free slot or held the usage already, the usage of that entry; row 4
\* (KEY_A) gives (0x00, 0x18) with no selector and (0x02, 0x18) with a shift.
ReportFromTable ==
    [][(KeyPress(TableKeys) /\ sent' # <<>>) =>
          \A usage \in {Resolved(inevent'.code)} :
              LET code  == inevent'.code
                  layer == Layer(LayerMod(modifierkeys'))
                  rep   == sent'[1].rep
                  room  == \E i \in 1..8 : pressedkey[i] \in {0, usage}
              IN  /\ usage # 0 =>
                        /\ rep[3] = Chars(FallThrough(code), layer, 0)
                        /\ room => usage \in KeysOf(rep)
                  /\ (code = "KEY_A" /\ Groups(modifierkeys') \subseteq {1}) =>
                        /\ FallThrough(code) = 4
                        /\ rep[3] = (IF Groups(modifierkeys') = {1} THEN 2 ELSE 0)
                        /\ room => 24 \in KeysOf(rep)]_vars

\* C16: KEY_A has been pressed with LeftShift and LCtrl held: the report carries
\* the table's modifier 0x02 and usage 0x18
ShiftedKeyReported ==
    /\ inevent = Rd("event", "EV_KEY", "KEY_A", 1)
    /\ modifierkeys = ModifierCases["KEY_LEFTSHIFT"] + ModifierCases["KEY_LEFTCTRL"]
    /\ sent # <<>>
    /\ sent[1].rep = KeybReport(2, <<24, 0, 0, 0, 0, 0, 0, 0>>)
    /\ pressedkey[1] = 24

\* a pass of parse_events that has read the release of one of these keys
KeyRelease(keys) == ParseEventsStep /\ inevent'.value = 0 /\ inevent'.code \in keys

\* C17: behind the release of a regular key pressedkey holds no usage of
\* that key's row (no other key of the runs has a usage of that row, so a
\* usage of the row has been put there by a press of this key).
ReleaseRemovesPressed ==
    [][KeyRelease(TableKeys) =>
          \A layer \in 0..5, i \in 1..8 :
              pressedkey'[i] # 0 =>
                  pressedkey'[i] # Chars(FallThrough(inevent'.code), layer, 1)]_vars

\* the number of usages pressedkey holds
Held(pk) == Cardinality({ i \in 1..8 : pk[i] # 0 })

\* C18: the press of a mapped key whose usage pressedkey does not hold puts
\* the usage behind the ones held if fewer than 8 are, and leaves pressedkey
\* as it is if 8 are; in that case the pass ends as any other: the session
\* and the process go on unless the send of the report fails.
NinthKeyDropped ==
    [][KeyPress(TableKeys) =>
          \A usage \in {Resolved(inevent'.code)} :
              (usage # 0 /\ \A i \in 1..8 : pressedkey[i] # usage) =>
                  IF Held(pressedkey) = 8
                  THEN /\ pressedkey' = pressedkey
                       /\ (\A k \in 1..Len(sent') : sent'[k].res >= 1) =>
                             /\ pc' \in {"conn_parse", "conn_select"}
                             /\ connectionok' = 1 /\ prepareshutdown' = 0
                  ELSE pressedkey' = [pressedkey EXCEPT ![Held(pressedkey) + 1] = usage]]_vars

\* C18: with F1 .. F7 held KEY_ENTER has been pressed and stored, and the
\* press of KEY_A behind it has left all eight in place and the session running
EightKeysHeld ==
    /\ inevent = Rd("event", "EV_KEY", "KEY_A", 1)
    /\ pressedkey = [Prefill(7) EXCEPT ![8] = Chars(FallThrough("KEY_ENTER"), 0, 1)]
    /\ modifierkeys = 0
    /\ nready = MaxEvents - 2
    /\ connectionok = 1 /\ pc = "conn_parse"
    /\ sent # <<>> /\ sent[1].rep = KeybReport(0, pressedkey)

\* C19: the release of a regular key whose usage pressedkey does not hold
\* leaves pressedkey as it is.
ReleaseOfAbsentUsage ==
    [][KeyRelease(TableKeys) =>
          \A usage \in {Resolved(inevent'.code)} :
              (\A i \in 1..8 : pressedkey[i] # usage) => pressedkey' = pressedkey]_vars

\* C19: with F1 .. F8 held the release of KEY_A, which is not among them,
\* has left them as they were and has reported them
AbsentUsageReleased ==
    /\ inevent = Rd("event", "EV_KEY", "KEY_A", 0)
    /\ pressedkey = Prefill(8)
    /\ sent # <<>> /\ sent[1].rep = KeybReport(0, Prefill(8))

\* C20: with -f, what main() polls is the FIFO alone, and what parse_events
\* reads is the FIFO alone; the standard input is neither polled nor read.
FifoAlonePolled ==
    (fifoname # "NULL" /\ pc \notin {"main", "organize", "exited"}) =>
        /\ (\E l \in SelectLoops : pc = AtSelect(l)) => efds = {evdevtab[0]}
        /\ efds \subseteq {evdevtab[0]}
        /\ rdfds \subseteq {evdevtab[0]}
        /\ Stdin \notin efds \cup rdfds

\* a pass of parse_events whose read() has delivered no complete record
BadRead == ParseEventsStep /\ inevent'.kind \in {"err", "eof", "short"}

\* where main() selects again when a call of parse_events has returned 0
SelectOf(at) == IF at = "conn_parse" THEN "conn_select" ELSE "drain2_select"

\* C21: a read that fails, returns 0 bytes or returns less than one record
\* changes none of the globals of the translation, sends nothing, leaves the
\* session and the process as they are, takes its descriptor off the list
\* (it is not read again in this call), and the call goes on with the next
\* ready descriptor or, behind the last one, returns 0 to the select loop.
ReadErrorSkipped ==
    [][BadRead =>
          /\ UNCHANGED <<translator, connectionok, prepareshutdown, sctl, sint, exitcode>>
          /\ sent' = <<>>
          /\ nready' = nready - 1
          /\ pc' = IF nready > 1 THEN pc ELSE SelectOf(pc)]_vars

\* C21: a short read in a session, and the call goes on with the next
\* descriptor
ShortReadSkipped ==
    /\ inevent.kind = "short"
    /\ pc = "conn_parse" /\ connectionok = 1
    /\ nready = MaxEvents - 1

\* a pass of parse_events that has read an event of a key code that the
\* switch does not know
UnknownKey ==
    /\ ParseEventsStep
    /\ inevent'.type = "EV_KEY"
    /\ inevent'.code \notin ButtonCodes \cup ModifierCodes \cup RegularCodes \cup {"KEY_SYSRQ"}

\* C22: an event of a key code outside the recognised set sends no report
\* and changes none of the globals of the translation, connected or not,
\* muted or not.
UnknownKeyIgnored ==
    [][UnknownKey => (sent' = <<>> /\ UNCHANGED translator)]_vars

\* the mouse reports among the reports of a pass (report id 1)
MousePart(reports) == SelectSeq(reports, LAMBDA r : r.rep[2] = 1)

\* the bit of each button in the button mask
ButtonMask == [ BTN_LEFT |-> 1, BTN_RIGHT |-> 2, BTN_MIDDLE |-> 4 ]

\* the three axis fields of the report of a movement: X and Y have fields of
\* their own, Z and the wheel share the third
AxisFields(code, value) ==
    IF code = "REL_X" THEN <<Byte(value), 0, 0>>
    ELSE IF code = "REL_Y" THEN <<0, Byte(value), 0>>
    ELSE <<0, 0, Byte(value)>>

\* a pass of parse_events in a session that has read a mouse-button event
ButtonEvent ==
    /\ ParseEventsStep /\ connectionok = 1
    /\ inevent'.type = "EV_KEY" /\ inevent'.code \in ButtonCodes

\* a pass of parse_events in a session that has read a relative-axis event
AxisEvent == ParseEventsStep /\ connectionok = 1 /\ inevent'.type = "EV_REL"

\* C23 as stated: in a session every button event and every relative-axis
\* event, whatever its axis, hands exactly one mouse report to send(), muted
\* or not.
EveryMouseEventReported ==
    [][(ButtonEvent \/ AxisEvent) => Len(MousePart(sent')) = 1]_vars

\* C23: in a session, muted or not, a button event sets the button's bit
\* after value 1 and clears it otherwise, leaves the other two bits, and
\* sends exactly one mouse report A1 01 with the new mask and three zero
\* axis fields; an event of the axes X, Y, Z or of the wheel sends exactly one
\* mouse report with the mask unchanged, the delta as a byte in the field of
\* the axis and 0 in the other two, and nothing else; an event of any other
\* relative axis sends nothing and changes nothing.
MouseEventReported ==
    [][/\ ButtonEvent =>
            \A c \in {ButtonMask[inevent'.code]} :
               /\ mousebuttons' \in 0..7
               /\ BitAnd(mousebuttons', c) = IF inevent'.value = 1 THEN c ELSE 0
               /\ BitAnd(mousebuttons', 7 - c) = BitAnd(mousebuttons, 7 - c)
               /\ \A m \in {MousePart(sent')} :
                      /\ Len(m) = 1
                      /\ m[1].rep = <<161, 1, mousebuttons', 0, 0, 0>>
       /\ AxisEvent =>
            IF inevent'.code \in {"REL_X", "REL_Y", "REL_Z", "REL_WHEEL"}
            THEN /\ Len(sent') = 1
                 /\ sent'[1].rep = <<161, 1, mousebuttons>>
                                       \o AxisFields(inevent'.code, inevent'.value)
                 /\ UNCHANGED translator
            ELSE sent' = <<>> /\ UNCHANGED translator]_vars

\* C23: the left button has been released in a session while the right one
\* is held, and the report says so
ButtonReleasedReported ==
    /\ inevent = Rd("event", "EV_KEY", "BTN_LEFT", 0)
    /\ connectionok = 1
    /\ mousebuttons = 2
    /\ sent # <<>> /\ sent[1].rep = <<161, 1, 2, 0, 0, 0>>

\* C24: a key event read in a session leaves modifierkeys and pressedkey as
\* the same event leaves them with the mute toggle the other way round, and
\* leaves the toggle alone; unmuted it hands exactly one keyboard report
\* with the new pressedkey to send(), muted none.
MuteGatesTheReportOnly ==
    [][(ParseEventsStep /\ connectionok = 1 /\ inevent'.type = "EV_KEY") =>
          \A o \in {ParseOne(inevent', [State EXCEPT !.on = 1 - on], TRUE, result, NoFail)} :
             /\ modifierkeys' = o.modifierkeys
             /\ pressedkey' = o.pressedkey
             /\ on' = on
             /\ IF on = 1
                THEN /\ Len(sent') = 1
                     /\ SubSeq(sent'[1].rep, 1, 2) = <<161, 2>>
                     /\ SubSeq(sent'[1].rep, 4, 11) = pressedkey'
                ELSE sent' = <<>>]_vars

\* C24: muted, the press of KEY_A has been stored and not reported
MutedPressStored ==
    /\ inevent = Rd("event", "EV_KEY", "KEY_A", 1)
    /\ on = 0 /\ connectionok = 1
    /\ pressedkey = <<24, 0, 0, 0, 0, 0, 0, 0>>
    /\ sent = <<>>

\* C25: a pass of parse_events outside a session (in a drain) leaves nothing
\* behind that the next session can see: pressedkey, modifierkeys and
\* mousebuttons are cleared when the session starts, so what is left is that
\* the pass leaves the mute toggle alone and the process running.
DrainedInputDiscarded ==
    [][(ParseEventsStep /\ connectionok = 0) =>
          (on' = on /\ pc' \notin Terminated)]_vars

\* the first slot of pressedkey that holds this usage
FirstAt(pk, usage) ==
    CHOOSE i \in 1..8 : pk[i] = usage /\ \A k \in 1..(i - 1) : pk[k] # usage

\* C26: the release of a regular key whose usage pressedkey holds removes
\* that usage: the slots in front of it keep their usages, each slot from
\* there on takes the usage of the slot behind it, and the last slot is 0.
ReleaseCompacts ==
    [][KeyRelease(TableKeys) =>
          \A usage \in {Resolved(inevent'.code)} :
             (usage # 0 /\ \E i \in 1..8 : pressedkey[i] = usage) =>
                 \A at \in {FirstAt(pressedkey, usage)} :
                    pressedkey' = [k \in 1..8 |->
                                     IF k < at THEN pressedkey[k]
                                     ELSE IF k < 8 THEN pressedkey[k + 1]
                                     ELSE 0]]_vars

\* C26: KEY_A and KEY_B were held, and the release of KEY_A has moved the
\* usage of KEY_B to the front
FirstOfTwoReleased ==
    /\ inevent = Rd("event", "EV_KEY", "KEY_A", 0)
    /\ nready = 0
    /\ pressedkey = <<28, 0, 0, 0, 0, 0, 0, 0>>

\* the usage the table lookup of a pass yields: row 1 for the modifier-like
\* keys, the key's own row for a regular key
LookedUp(code) == IF code \in RegularCodes THEN Resolved(code) ELSE 0

\* C27: the report of a key event whose lookup yields usage 0 carries the
\* low 8 bits of modifierkeys, as the event has left them, as its modifier
\* byte.
UnmappedReportsHeldModifiers ==
    [][(ParseEventsStep /\ inevent'.type = "EV_KEY" /\ sent' # <<>>) =>
          \A usage \in {LookedUp(inevent'.code)} :
             usage = 0 => sent'[1].rep[3] = modifierkeys' % 256]_vars

\* C28: a key event whose lookup yields usage 0 leaves pressedkey as it is,
\* be it a press, a release or a repeat, with pressedkey empty, partly
\* filled or full.
UnmappedLeavesPressedKeys ==
    [][(ParseEventsStep /\ inevent'.type = "EV_KEY") =>
          \A usage \in {LookedUp(inevent'.code)} :
             usage = 0 => pressedkey' = pressedkey]_vars

\* C28: KEY_A has been released on layer 5, where its row has no usage
UnmappedKeyReleased ==
    /\ inevent = Rd("event", "EV_KEY", "KEY_A", 0)
    /\ Layer(LayerMod(modifierkeys)) = 5
    /\ Chars(FallThrough("KEY_A"), 5, 1) = 0
    /\ Held(pressedkey) = 1

\* C29: behind a key event each of the 11 modifier-like keys has its bit in
\* modifierkeys set if the event is of that key with value 1 or more, clear
\* if it is of that key with value 0, and as before if it is of another key,
\* however the pass ends.
ModifierBitFollowsKey ==
    [][(ParseEventsStep /\ inevent'.type = "EV_KEY") =>
          \A k \in ModifierCodes :
             BitAnd(modifierkeys', KeyBit(k)) =
                IF inevent'.code # k THEN BitAnd(modifierkeys, KeyBit(k))
                ELSE IF inevent'.value >= 1 THEN KeyBit(k)
                ELSE 0]_vars

\* C29: RAlt has been released while LCtrl and RAlt were held, and the bit
\* of LCtrl is the one that is left
OneOfTwoReleased ==
    /\ inevent = Rd("event", "EV_KEY", "KEY_RIGHTALT", 0)
    /\ modifierkeys % Marker = KeyBit("KEY_LEFTCTRL")

\* C30: a repeat leaves pressedkey as it is, and the repeat of a modifier-like
\* key whose bit is set leaves the bits of all 11 keys as they are.
RepeatIsIdempotent ==
    [][(ParseEventsStep /\ inevent'.type = "EV_KEY" /\ inevent'.value >= 2) =>
          /\ pressedkey' = pressedkey
          /\ (/\ inevent'.code \in ModifierCodes
              /\ BitAnd(modifierkeys, KeyBit(inevent'.code)) # 0) =>
                 modifierkeys' % Marker = modifierkeys % Marker]_vars

\* C30: the repeat of LCtrl while LCtrl and LShift are held
HeldModifierRepeated ==
    /\ inevent = Rd("event", "EV_KEY", "KEY_LEFTCTRL", 2)
    /\ modifierkeys % Marker = KeyBit("KEY_LEFTCTRL") + KeyBit("KEY_LEFTSHIFT")
    /\ pressedkey = NoKeys

\* a pass of parse_events that has read the release of PRINT with RCtrl held
\* and LCtrl not held
BurstRelease ==
    /\ ParseEventsStep
    /\ inevent' = Rd("event", "EV_KEY", "KEY_SYSRQ", 0)
    /\ BitAnd(modifierkeys, 1) = 0 /\ BitAnd(modifierkeys, 16) = 16

\* C31: a pass of parse_events that reads anything but the release of PRINT
\* with RCtrl held hands at most one report to send(), be it the event of a
\* mouse button or of a key.
AtMostOneReport ==
    [][(ParseEventsStep /\ ~BurstRelease) => Len(sent') <= 1]_vars

\* a pass of parse_events that has read an event of PRINT
SessionKeyEvent ==
    /\ ParseEventsStep
    /\ inevent'.type = "EV_KEY" /\ inevent'.code = "KEY_SYSRQ"

\* C32: a press, a repeat or a release of PRINT hands no report to send()
\* but the final report of LCtrl+PRINT and the reports of the RCtrl+PRINT
\* burst; the release with no modifier held, which flips the mute toggle,
\* sends nothing.
SessionKeySendsNoKeyboardReport ==
    [][SessionKeyEvent =>
          /\ \A k \in 1..Len(sent') : sent'[k].site \in {"final", "pass"}
          /\ (inevent'.value = 0 /\ BitAnd(modifierkeys, 17) = 0) => sent' = <<>>]_vars

\* the reports of the RCtrl+PRINT burst among the reports of a pass
BurstPart(reports) == SelectSeq(reports, LAMBDA r : r.site = "pass")

\* C33: the release of PRINT with RCtrl held and LCtrl not held hands the
\* pairs of the table to send() in table order, each as one keyboard report
\* with the pair's modifier byte and the pair's usage in the first slot, and
\* only in an unmuted session (muted or not connected none is sent); a send
\* that returns less than 1 is the last report of the pass, and the session
\* ends with the shutdown flag as it was and the process running; with no
\* failing send all pairs are sent.
BurstSentInOrder ==
    [][BurstRelease =>
          \A b \in {BurstPart(sent')} :
             /\ (connectionok = 0 \/ on = 0) => b = <<>>
             /\ Len(b) <= ARRAY
             /\ \A k \in 1..Len(b) :
                   /\ b[k] = sent'[k]
                   /\ b[k].rep = <<161, 2, pass[k][1], pass[k][2]>>
                                    \o SubSeq(pressedkey, 2, 8)
                   /\ b[k].res < 1 =>
                         /\ k = Len(sent')
                         /\ connectionok' = 0 /\ pc' = "conn_outer"
                         /\ prepareshutdown' = prepareshutdown
             /\ (connectionok = 1 /\ on = 1 /\ \A k \in 1..Len(b) : b[k].res >= 1) =>
                   Len(b) = ARRAY
             /\ pc' \notin Terminated]_vars

\* C33: in an unmuted session the send of the second pair of the burst has
\* failed, and the session has ended
BurstStoppedBySendFailure ==
    /\ inevent = Rd("event", "EV_KEY", "KEY_SYSRQ", 0)
    /\ Len(sent) = 2
    /\ sent[1].site = "pass" /\ sent[1].res >= 1
    /\ sent[2].site = "pass" /\ sent[2].res < 1
    /\ connectionok = 0 /\ pc = "conn_outer" /\ prepareshutdown = 0

\* a pass of parse_events that has read the release of PRINT with neither
\* LCtrl nor RCtrl held
ToggleRelease ==
    /\ ParseEventsStep
    /\ inevent' = Rd("event", "EV_KEY", "KEY_SYSRQ", 0)
    /\ BitAnd(modifierkeys, 17) = 0

\* C34: the mute toggle is 0 (muted) when the process starts; a step of the
\* process changes it if and only if it is the release of PRINT with neither
\* LCtrl nor RCtrl held, in a session or in a drain, and that release flips
\* it, so it is the parity of the number of these releases; no pass that
\* starts and ends muted hands a keyboard report to send().
MuteToggleFollowsRelease ==
    /\ on = 0
    /\ [][/\ (on' # on) <=> ToggleRelease
          /\ on' \in {on, 1 - on}
          /\ (ParseEventsStep /\ on = 0 /\ on' = 0) =>
                \A k \in 1..Len(sent') : sent'[k].site \notin {"keyb", "pass"}]_vars

\* C34: the pass that has just ended in a running session has read the
\* release of PRINT with neither LCtrl nor RCtrl held (the release leaves
\* modifierkeys alone), the toggle says unmuted, and the keyboard report of
\* that pass has been sent
UnmutedByRelease ==
    /\ inevent = Rd("event", "EV_KEY", "KEY_SYSRQ", 0)
    /\ BitAnd(modifierkeys, 17) = 0
    /\ connectionok = 1 /\ pc = "conn_select"
    /\ on = 1
    /\ Len(sent) = 1 /\ sent[1].site = "keyb"

\* the usage that the event of a pass releases: the one the lookup yields for
\* the release of a regular key, 0 for every other event
ReleasedUsage ==
    IF inevent'.value = 0 /\ inevent'.code \in RegularCodes
    THEN Resolved(inevent'.code)
    ELSE 0

\* C35: every keyboard report that the common keyboard part of a pass hands
\* to send() is 11 bytes, 0xA1, 2, the modifier byte and the key array; in
\* the key array no zero precedes a usage, and it holds every usage that
\* pressedkey held before the pass and that the event of the pass has not
\* released, also behind a burst of RCtrl+PRINT.
OrdinaryReportShowsHeldKeys ==
    [][ParseEventsStep =>
          \A k \in 1..Len(sent') :
             sent'[k].site = "keyb" =>
                \A rep \in {sent'[k].rep} :
                   /\ Len(rep) = 11 /\ rep[1] = 161 /\ rep[2] = 2
                   /\ \A i \in 4..10 : rep[i] = 0 => rep[i + 1] = 0
                   /\ \A i \in 1..8 :
                         (pressedkey[i] # 0 /\ pressedkey[i] # ReleasedUsage) =>
                             pressedkey[i] \in KeysOf(rep)]_vars

\* C36: the drain at the top of the main loop comes to its end, the test of
\* the shutdown flag in front of the wait for the control connection, whatever
\* the input sources deliver.
DrainTerminates ==
    (pc = "drain1_select") ~> (pc = "drain1_end" \/ pc \in Terminated)

\* C37: every keyboard report of a pass carries in its modifier byte the bit
\* of each of LCtrl, LAlt, LMeta, RCtrl and RMeta that is held when the pass
\* ends, also the report of the press or the release of a regular key.
HeldModifierInEveryReport ==
    [][(ParseEventsStep /\ inevent'.type = "EV_KEY") =>
          \A k \in 1..Len(sent') :
             sent'[k].site = "keyb" =>
                \A m \in RealModifiers :
                   BitAnd(modifierkeys', KeyBit(m)) # 0 =>
                       BitAnd(sent'[k].rep[3], KeyBit(m)) # 0]_vars

\* u as the inner switch leaves it for any key code: the regular keys count
\* it up, every other case and the default leave it 1
Index(code) == IF code \in RegularCodes THEN FallThrough(code) ELSE 1

\* the index of every key code is 1 or in 4..99
IndexInRange == \A c \in AllKeyCodes : Index(c) \in {1} \cup 4..99

\* every combination of the three selector groups gives a layer in 0..5
LayerInRange == \A layermod \in 0..7 : Layer(layermod) \in 0..5

\* unsigned char chars[100][6][2]
TableShape ==
    /\ Len(chars) = 100
    /\ \A u \in 1..100 : Len(chars[u]) = 6 /\ \A l \in 1..6 : Len(chars[u][l]) = 2

\* C38: for every key code the index of the lookup is 1 or in 4..99, KEY_A
\* gives 4, KEY_F1 58 and KEY_KPDOT 99; the layer is in 0..5 for every
\* combination of selector groups, and modifierkeys gives such a combination
\* in every state of the runs; so chars[index][layer] is an entry of the
\* table of 100 rows of 6 pairs.  The press that has been read has stored the
\* usage of that entry.
LookupInsideTable ==
    /\ IndexInRange
    /\ Index("KEY_A") = 4 /\ Index("KEY_F1") = 58 /\ Index("KEY_KPDOT") = 99
    /\ LayerInRange
    /\ LayerMod(modifierkeys) \in 0..7
    /\ TableShape
    /\ (inevent.kind = "event" /\ inevent.value = 1 /\ inevent.code \in RegularCodes) =>
          pressedkey[1] = Chars(Index(inevent.code), Layer(LayerMod(modifierkeys)), 1)

\* C38: KEY_KPDOT has been pressed with no selector held and the usage of
\* row 99, layer 0 has been stored and reported
LastRowLookedUp ==
    /\ inevent = Rd("event", "EV_KEY", "KEY_KPDOT", 1)
    /\ Layer(LayerMod(modifierkeys)) = 0
    /\ pressedkey[1] = chars[100][1][2] /\ pressedkey[1] # 0
    /\ sent # <<>> /\ sent[1].rep[4] = pressedkey[1]

\* a pass of parse_events that has read the release of PRINT with LCtrl held,
\* which leaves through exit(0) in front of the keyboard part
StopKeyRelease ==
    /\ ParseEventsStep
    /\ inevent' = Rd("event", "EV_KEY", "KEY_SYSRQ", 0)
    /\ BitAnd(modifierkeys, 1) = 1

\* C39: a key event read in a session that comes to the test of the send
\* result with the toggle muted (a press, a release, a repeat, an event of
\* PRINT, or the keyboard part behind the report of a mouse button) hands no
\* keyboard report to send(), and unless the send of the mouse report has
\* failed parse_events does not return -1: the session and the process go on
\* with the next descriptor or the next select.
MutedKeyEventKeepsSession ==
    [][(/\ ParseEventsStep /\ connectionok = 1
        /\ inevent'.type = "EV_KEY" /\ on' = 0
        /\ ~StopKeyRelease) =>
          /\ \A k \in 1..Len(sent') : sent'[k].site = "button"
          /\ (\A k \in 1..Len(sent') : sent'[k].res >= 1) =>
                /\ connectionok' = 1
                /\ prepareshutdown' = prepareshutdown
                /\ pc' = IF nready > 1 THEN "conn_parse" ELSE "conn_select"]_vars

\* C39: muted, the repeat of KEY_A has been read in a session behind its
\* press, nothing has been sent and the call goes on with the next descriptor
MutedRepeatKeepsSession ==
    /\ inevent = Rd("event", "EV_KEY", "KEY_A", 2)
    /\ on = 0 /\ connectionok = 1
    /\ pressedkey[1] = 24
    /\ sent = <<>>
    /\ pc = "conn_parse" /\ nready = MaxEvents - 2

====
